---------------------------- MODULE Spec2Model ----------------------------
(***************************************************************************)
(* Admission controller of the hall-pass kiosk (HalllDay, src/app.py):     *)
(* per-tenant sessions, wait queue, ban flags and settings, and the        *)
(* request handlers that change them.  Every handler is modelled twice     *)
(* from the same step function: as one atomic action (requests served one  *)
(* at a time) and as a sequence of database statements of a request that   *)
(* runs concurrently with other requests.                                  *)
(***************************************************************************)
EXTENDS Integers, Sequences, FiniteSets, TLC

\* ------------------------------------------------------------------------
\* Bounds of the model
\* ------------------------------------------------------------------------
\* The clock is read for every timestamp the handlers store; it stops here.
MaxTime == 6
\* Number of rows the Session table may hold.
MaxSessions == 3

\* ------------------------------------------------------------------------
\* Values
\* ------------------------------------------------------------------------
\* user_id None (legacy mode, no tenant resolved).
None == 0
\* Tenants with a User row.
Users == {1}
\* NULL in a timestamp column.
NoTs == -1
\* NULL in Session.ended_by.
NoEnd == "null"

\* Student ids are strings; a string is modelled as the sequence of its
\* pieces between underscores, so that f"student_{user_id}_{student_id}" is
\* a concatenation.
Students == {<<"A">>, <<"B">>}
\* A code that is on no roster.
UnknownCode == <<"X">>
Codes == Students \cup {UnknownCode}

\* str(user_id) inside an f-string.
Str(user_id) == IF user_id = 1 THEN "1" ELSE IF user_id = 2 THEN "2" ELSE "None"

\* src/config.py
CAPACITY == 1
MAX_MINUTES == 12

VARIABLES
    settings,       \* Settings table: user_id -> row
    sessions,       \* Session table: set of rows
    queue,          \* Queue table: set of rows
    student_name,   \* StudentName table: set of rows (the ban flag lives here)
    now,            \* the wall clock
    last,           \* the last request served and its response
    reqs,           \* requests in flight: process -> local state of its handler
    seen            \* the status payload last returned by /api/status

vars == <<settings, sessions, queue, student_name, now, last, reqs, seen>>

\* The database as one value, for the handlers written as functions.
DB == [settings |-> settings, sessions |-> sessions, queue |-> queue,
       student_name |-> student_name, now |-> now]

\* ------------------------------------------------------------------------
\* Helpers
\* ------------------------------------------------------------------------
\* ORDER BY key ASC of a set of rows (keys are distinct timestamps; rows with
\* equal keys come out in an order the database chooses).
RECURSIVE OrderBy(_, _)
OrderBy(rows, col) ==
    IF rows = {} THEN <<>>
    ELSE LET first == CHOOSE r \in rows : \A o \in rows : r[col] <= o[col]
         IN  <<first>> \o OrderBy(rows \ {first}, col)

SeqToSet(s) == {s[i] : i \in 1..Len(s)}

\* RosterService._hash_student_id: sha256 of the input string, taken as
\* injective on the inputs of the model.  The user_id is part of the input
\* only when it is given and truthy.
hash_student_id(student_id, user_id) ==
    IF user_id # None THEN <<"student", Str(user_id)>> \o student_id
    ELSE <<"student">> \o student_id

\* The hash api_roster_upload and api_ban_overdue compute inline.
InlineHash(user_id, student_id) == <<"student", Str(user_id)>> \o student_id

\* A StudentName row as api_roster_upload / store_student_names_batch store it.
RosterRow(user_id, student_id, banned) ==
    [user_id |-> user_id, name_hash |-> InlineHash(user_id, student_id),
     encrypted_id |-> student_id, display_name |-> <<"name">> \o student_id,
     banned |-> banned]

\* Rows a filter_by(name_hash=...) [.filter_by(user_id=...)] query returns.
NameRows(db, user_id, name_hash) ==
    {r \in db.student_name :
        r.name_hash = name_hash /\ (user_id # None => r.user_id = user_id)}

\* RosterService.get_student_name: the roster cache mirrors the table.
get_student_name(db, user_id, student_id, fallback) ==
    LET rows == NameRows(db, user_id, hash_student_id(student_id, user_id))
    IN  IF rows = {} THEN fallback ELSE (CHOOSE r \in rows : TRUE).display_name

\* BanService.is_student_banned: the hash is taken WITHOUT the user_id.
is_student_banned(db, user_id, student_id) ==
    LET rows == NameRows(db, user_id, hash_student_id(student_id, None))
    IN  IF rows = {} THEN FALSE ELSE (CHOOSE r \in rows : TRUE).banned

\* BanService.set_student_banned: returns the table after the call.
set_student_banned(db, user_id, student_id, banned_status) ==
    LET rows == NameRows(db, user_id, hash_student_id(student_id, None))
    IN  IF rows = {} THEN db.student_name
        ELSE LET r == CHOOSE x \in rows : TRUE
             IN  (db.student_name \ {r}) \cup {[r EXCEPT !.banned = banned_status]}

\* get_settings: the tenant's row, or the config defaults in legacy mode
\* (where the queue keys are absent and settings.get(...) is falsy).
DefaultSettings ==
    [capacity |-> 1, overdue_minutes |-> 10, kiosk_suspended |-> FALSE,
     auto_ban_overdue |-> FALSE, auto_promote_queue |-> FALSE,
     enable_queue |-> FALSE]

get_settings(db, user_id) ==
    IF user_id # None THEN db.settings[user_id]
    ELSE [capacity |-> CAPACITY, overdue_minutes |-> MAX_MINUTES,
          kiosk_suspended |-> FALSE, auto_ban_overdue |-> FALSE,
          auto_promote_queue |-> FALSE, enable_queue |-> FALSE]

\* The open sessions ordered by start_ts descending.
get_open_sessions_NewestFirst(db, user_id) ==
    LET asc == OrderBy({s \in db.sessions :
                           s.end_ts = NoTs /\ (user_id # None => s.user_id = user_id)},
                       "start_ts")
    IN  [i \in 1..Len(asc) |-> asc[Len(asc) + 1 - i]]

\* SessionService.get_open_sessions: end_ts IS NULL, of the user when one is
\* given, of every user otherwise, ordered by start_ts.
get_open_sessions(db, user_id) ==
    OrderBy({s \in db.sessions :
                s.end_ts = NoTs /\ (user_id # None => s.user_id = user_id)},
            "start_ts")

\* The holder taken from the other end: the newest open session.
get_current_holder_Newest(db, user_id) ==
    LET open == get_open_sessions(db, user_id)
    IN  IF open = <<>> THEN {} ELSE {open[Len(open)]}

\* SessionService.get_current_holder
get_current_holder(db, user_id) ==
    LET open == get_open_sessions(db, user_id)
    IN  IF open = <<>> THEN {} ELSE {open[1]}

\* Session.duration_seconds; the clock counts minutes.
duration_seconds(s, t) == ((IF s.end_ts = NoTs THEN t ELSE s.end_ts) - s.start_ts) * 60

\* Queue.query.filter_by(user_id=user_id).order_by(Queue.joined_ts.asc())
QueueRows(db, user_id) == {q \in db.queue : q.user_id = user_id}
QueueOrdered(db, user_id) == OrderBy(QueueRows(db, user_id), "joined_ts")

NextSessionId(db) ==
    IF db.sessions = {} THEN 1
    ELSE 1 + (CHOOSE i \in {s.id : s \in db.sessions} :
                 \A s \in db.sessions : s.id <= i)


\* ------------------------------------------------------------------------
\* Local state of a request handler
\* ------------------------------------------------------------------------
\* pc is the statement the handler executes next; "done" once it has
\* returned, with the response in action/status.
NewReq(op, user_id, code, pc) ==
    [op |-> op, user_id |-> user_id, code |-> code, pc |-> pc,
     settings |-> DefaultSettings,  \* the dict api_scan read at its start
     open_sessions |-> <<>>,        \* the list api_scan read
     s |-> {},                      \* the open session of the scanner, if any
     del_top |-> {},                \* db.session.delete(top_spot), not yet committed
     action |-> "none", status |-> 0,
     next_student |-> {}]           \* the student the END scan promoted

Idle == NewReq("none", None, <<>>, "idle")

Return(l, action, status) ==
    [l EXCEPT !.pc = "done", !.action = action, !.status = status, !.del_top = {}]

\* Queue(student_id=code, user_id=user_id); db.session.add(q); commit().
\* Queue.user_id is NOT NULL: the insert fails in legacy mode.
QueueRow(db, user_id, code) ==
    [student_id |-> code, user_id |-> user_id, joined_ts |-> db.now]

SessionRow(db, user_id, code, ended_by) ==
    [id |-> NextSessionId(db), student_id |-> code, start_ts |-> db.now,
     end_ts |-> NoTs, ended_by |-> ended_by, user_id |-> user_id]

\* ------------------------------------------------------------------------
\* api_scan, statement by statement
\* ------------------------------------------------------------------------
\* Each operator takes the database and the handler's local state and gives
\* both after the statement(s) it models.

\* ScanSettings without the suspended gate.
ScanSettings_NoGate(db, l) ==
    LET l1 == [l EXCEPT !.settings = get_settings(db, l.user_id)]
    IN  IF get_student_name(db, l.user_id, l.code, <<"Student">>) = <<"Student">>
          THEN [db |-> db, loc |-> Return(l1, "unknown", 404)]
        ELSE [db |-> db, loc |-> [l1 EXCEPT !.pc = "sessions"]]

\* src/app.py 1317-1346: settings read, suspended gate, identity lookup.
ScanSettings(db, l) ==
    LET st == get_settings(db, l.user_id)
        l1 == [l EXCEPT !.settings = st]
    IN  IF st.kiosk_suspended
          THEN [db |-> db, loc |-> Return(l1, "suspended", 403)]
        ELSE IF get_student_name(db, l.user_id, l.code, <<"Student">>) = <<"Student">>
          THEN [db |-> db, loc |-> Return(l1, "unknown", 404)]
        ELSE [db |-> db, loc |-> [l1 EXCEPT !.pc = "sessions"]]

\* 1348-1353: the open sessions are read once; the first one of the scanning
\* student, if any, makes this an END scan.
ScanSessions(db, l) ==
    LET open == get_open_sessions(db, l.user_id)
        mine == {i \in 1..Len(open) : open[i].student_id = l.code}
        l1   == [l EXCEPT !.open_sessions = open]
    IN  IF mine # {}
          THEN LET i == CHOOSE j \in mine : \A k \in mine : j <= k
               IN  [db |-> db, loc |-> [l1 EXCEPT !.s = {open[i]}, !.pc = "end_ban"]]
        ELSE [db |-> db, loc |-> [l1 EXCEPT !.pc = "ban_check"]]

\* 1356-1366: auto-ban on scan-back.  The response says "ended_banned"
\* whatever set_student_banned returned.
ScanEndBan(db, l) ==
    LET s == CHOOSE x \in l.s : TRUE
        ban == /\ l.settings.auto_ban_overdue
               /\ duration_seconds(s, db.now) > l.settings.overdue_minutes * 60
               /\ ~is_student_banned(db, l.user_id, l.code)
    IN  IF ban
          THEN [db  |-> [db EXCEPT !.student_name =
                            set_student_banned(db, l.user_id, l.code, TRUE)],
                loc |-> [l EXCEPT !.action = "ended_banned", !.pc = "end_commit"]]
        ELSE [db |-> db, loc |-> [l EXCEPT !.action = "ended", !.pc = "end_commit"]]

\* ScanEndCommit without the assignment of end_ts: the commit leaves the
\* session open.
ScanEndCommit_KeepsOpen(db, l) ==
    [db  |-> [db EXCEPT !.now = db.now + 1],
     loc |-> [l EXCEPT !.pc = "promote"]]

\* ScanEndCommit whose UPDATE goes by tenant instead of by primary key:
\* every open session of the tenant is closed.
ScanEndCommit_ClosesAll(db, l) ==
    LET upd(r) == IF r.user_id = l.user_id /\ r.end_ts = NoTs
                    THEN [r EXCEPT !.end_ts = db.now, !.ended_by = "kiosk_scan"]
                  ELSE r
    IN  [db  |-> [db EXCEPT !.sessions = {upd(r) : r \in db.sessions},
                            !.now = db.now + 1],
         loc |-> [l EXCEPT !.pc = "promote"]]

\* 1369-1371: s.end_ts = now_utc(); s.ended_by = "kiosk_scan"; commit().
\* The UPDATE goes by primary key, whatever the row holds by now.
ScanEndCommit(db, l) ==
    LET s == CHOOSE x \in l.s : TRUE
        upd(r) == IF r.id = s.id
                    THEN [r EXCEPT !.end_ts = db.now, !.ended_by = "kiosk_scan"]
                  ELSE r
    IN  [db  |-> [db EXCEPT !.sessions = {upd(r) : r \in db.sessions},
                            !.now = db.now + 1],
         loc |-> [l EXCEPT !.pc = "promote"]]

\* ScanPromote without the promotion: the END scan returns after its first
\* commit.
ScanPromote_NoPromotion(db, l) ==
    [db |-> db, loc |-> Return(l, l.action, 200)]

\* ScanPromote that looks at enable_queue only: the head is promoted with
\* auto_promote_queue switched off.
ScanPromote_IgnoresAutoPromote(db, l) ==
    LET q == QueueOrdered(db, l.user_id)
    IN  IF l.settings.enable_queue /\ q # <<>>
          THEN LET next_in_line == q[1]
                   promoted_sess == SessionRow(db, l.user_id,
                                               next_in_line.student_id, "auto")
               IN  [db  |-> [db EXCEPT !.sessions = db.sessions \cup {promoted_sess},
                                       !.queue = db.queue \ {next_in_line},
                                       !.now = db.now + 1],
                    loc |-> [Return(l, "ended_auto_started", 200)
                                EXCEPT !.next_student = {next_in_line.student_id}]]
        ELSE [db |-> db, loc |-> Return(l, l.action, 200)]

\* 1376-1396: auto-promote the head of the queue, in a second commit.  The
\* promoted session is created with ended_by = "auto"; neither capacity nor
\* the ban flag of the promoted student is looked at.
ScanPromote(db, l) ==
    LET q == QueueOrdered(db, l.user_id)
    IN  IF l.settings.enable_queue /\ l.settings.auto_promote_queue /\ q # <<>>
          THEN LET next_in_line == q[1]
                   promoted_sess == SessionRow(db, l.user_id,
                                               next_in_line.student_id, "auto")
               IN  [db  |-> [db EXCEPT !.sessions = db.sessions \cup {promoted_sess},
                                       !.queue = db.queue \ {next_in_line},
                                       !.now = db.now + 1],
                    loc |-> [Return(l, "ended_auto_started", 200)
                                EXCEPT !.next_student = {next_in_line.student_id}]]
        ELSE [db |-> db, loc |-> Return(l, l.action, 200)]

\* 1398-1401: the ban check of the start path.
ScanBanCheck(db, l) ==
    IF is_student_banned(db, l.user_id, l.code)
      THEN [db |-> db, loc |-> Return(l, "banned", 403)]
    ELSE [db |-> db, loc |-> [l EXCEPT !.pc = "queue_lock"]]

\* ScanQueueLock without the lock: a scanner who is not the head of the
\* queue goes on to the capacity check.
ScanQueueLock_NoLock(db, l) ==
    LET q == QueueOrdered(db, l.user_id)
    IN  IF q # <<>> /\ q[1].student_id = l.code
          THEN [db |-> db, loc |-> [l EXCEPT !.del_top = {q[1]}, !.pc = "capacity"]]
        ELSE [db |-> db, loc |-> [l EXCEPT !.pc = "capacity"]]

\* ScanQueueLock that locks only the students in the queue: a scanner who
\* is not in the queue goes on to the capacity check.
ScanQueueLock_OutsiderPasses(db, l) ==
    LET q == QueueOrdered(db, l.user_id)
    IN  IF q = <<>>
          THEN [db |-> db, loc |-> [l EXCEPT !.pc = "capacity"]]
        ELSE IF q[1].student_id # l.code
          THEN IF \E r \in QueueRows(db, l.user_id) : r.student_id = l.code
                 THEN [db |-> db, loc |-> Return(l, "denied_queue_position", 409)]
               ELSE [db |-> db, loc |-> [l EXCEPT !.pc = "capacity"]]
        ELSE [db |-> db, loc |-> [l EXCEPT !.del_top = {q[1]}, !.pc = "capacity"]]

\* 1407-1428: queue lock.  Only the head of a non-empty queue goes on; its
\* row is deleted in the handler's transaction, to be committed later.
ScanQueueLock(db, l) ==
    LET q == QueueOrdered(db, l.user_id)
    IN  IF q = <<>>
          THEN [db |-> db, loc |-> [l EXCEPT !.pc = "capacity"]]
        ELSE IF q[1].student_id # l.code
          THEN IF \E r \in QueueRows(db, l.user_id) : r.student_id = l.code
                 THEN [db |-> db, loc |-> Return(l, "denied_queue_position", 409)]
               ELSE IF l.settings.enable_queue
                 THEN [db  |-> [db EXCEPT !.queue = db.queue \cup
                                     {QueueRow(db, l.user_id, l.code)},
                                   !.now = db.now + 1],
                       loc |-> Return(l, "queued", 200)]
               ELSE [db |-> db, loc |-> Return(l, "denied", 409)]
        ELSE [db |-> db, loc |-> [l EXCEPT !.del_top = {q[1]}, !.pc = "capacity"]]

\* ScanCapacity with the pending delete of top_spot committed before the
\* rejections return.
ScanCapacity_CommitsDelete(db, l) ==
    LET db1 == [db EXCEPT !.queue = db.queue \ l.del_top]
    IN  IF Len(l.open_sessions) >= l.settings.capacity
          THEN IF \E r \in QueueRows(db1, l.user_id) : r.student_id = l.code
                 THEN [db |-> db1, loc |-> Return(l, "denied_queue_position", 409)]
               ELSE IF l.settings.enable_queue
                 THEN [db  |-> [db1 EXCEPT !.queue = db1.queue \cup
                                     {QueueRow(db, l.user_id, l.code)},
                                   !.now = db.now + 1],
                       loc |-> Return(l, "queued", 200)]
               ELSE [db |-> db1, loc |-> Return(l, "denied", 409)]
        ELSE [db |-> db, loc |-> [l EXCEPT !.pc = "start"]]

\* ScanCapacity that compares with > : one session more than the capacity
\* may start.
ScanCapacity_OffByOne(db, l) ==
    IF Len(l.open_sessions) > l.settings.capacity
      THEN IF \E r \in QueueRows(db, l.user_id) \ l.del_top : r.student_id = l.code
             THEN [db |-> db, loc |-> Return(l, "denied_queue_position", 409)]
           ELSE IF l.settings.enable_queue
             THEN [db  |-> [db EXCEPT !.queue = (db.queue \ l.del_top) \cup
                                 {QueueRow(db, l.user_id, l.code)},
                               !.now = db.now + 1],
                   loc |-> Return(l, "queued", 200)]
           ELSE [db |-> db, loc |-> Return(l, "denied", 409)]
    ELSE [db |-> db, loc |-> [l EXCEPT !.pc = "start"]]

\* 1433-1448: capacity check against the list read at 1348.  A return
\* without commit drops the pending delete of top_spot; the commit of the
\* new Queue row carries it.
ScanCapacity(db, l) ==
    IF Len(l.open_sessions) >= l.settings.capacity
      THEN IF \E r \in QueueRows(db, l.user_id) \ l.del_top : r.student_id = l.code
             THEN [db |-> db, loc |-> Return(l, "denied_queue_position", 409)]
           ELSE IF l.settings.enable_queue
             THEN IF l.user_id = None
                    THEN [db |-> db, loc |-> Return(l, "error", 500)]
                  ELSE [db  |-> [db EXCEPT !.queue = (db.queue \ l.del_top) \cup
                                      {QueueRow(db, l.user_id, l.code)},
                                    !.now = db.now + 1],
                        loc |-> Return(l, "queued", 200)]
           ELSE [db |-> db, loc |-> Return(l, "denied", 409)]
    ELSE [db |-> db, loc |-> [l EXCEPT !.pc = "start"]]

\* ScanStart without the deletes: the Queue rows of the student stay.
ScanStart_KeepsQueueRow(db, l) ==
    [db  |-> [db EXCEPT !.sessions = db.sessions \cup
                            {SessionRow(db, l.user_id, l.code, NoEnd)},
                        !.now = db.now + 1],
     loc |-> Return(l, "started", 200)]

\* 1453-1458: delete the student's Queue rows, insert the Session, commit.
ScanStart(db, l) ==
    LET mine == {r \in QueueRows(db, l.user_id) : r.student_id = l.code}
        sess == SessionRow(db, l.user_id, l.code, NoEnd)
    IN  [db  |-> [db EXCEPT !.queue = (db.queue \ l.del_top) \ mine,
                            !.sessions = db.sessions \cup {sess},
                            !.now = db.now + 1],
         loc |-> Return(l, "started", 200)]

\* The statement at l.pc.
ScanStep(db, l) ==
    CASE l.pc = "settings"   -> ScanSettings(db, l)
      [] l.pc = "sessions"   -> ScanSessions(db, l)
      [] l.pc = "end_ban"    -> ScanEndBan(db, l)
      [] l.pc = "end_commit" -> ScanEndCommit(db, l)
      [] l.pc = "promote"    -> ScanPromote(db, l)
      [] l.pc = "ban_check"  -> ScanBanCheck(db, l)
      [] l.pc = "queue_lock" -> ScanQueueLock(db, l)
      [] l.pc = "capacity"   -> ScanCapacity(db, l)
      [] l.pc = "start"      -> ScanStart(db, l)

\* api_scan run from its first statement to its return, nothing in between.
RECURSIVE RunScan(_, _)
RunScan(db, l) ==
    IF l.pc = "done" THEN [db |-> db, loc |-> l]
    ELSE LET r == ScanStep(db, l) IN RunScan(r.db, r.loc)

api_scan(db, user_id, code) == RunScan(db, NewReq("scan", user_id, code, "settings"))

\* ------------------------------------------------------------------------
\* The queue endpoints and the admin endpoints
\* ------------------------------------------------------------------------
\* The membership check that finds nobody.
JoinCheck_NeverFound(db, l) ==
    [db |-> db, loc |-> [l EXCEPT !.pc = "join_commit"]]

\* api_queue_join, 1462-1471: the membership check.  The code is not looked
\* up in the roster, and neither sessions nor settings are read.
JoinCheck(db, l) ==
    IF \E r \in QueueRows(db, l.user_id) : r.student_id = l.code
      THEN [db |-> db, loc |-> Return(l, "already", 200)]
    ELSE [db |-> db, loc |-> [l EXCEPT !.pc = "join_commit"]]

\* api_queue_join, 1473-1476: the insert and its commit.
JoinCommit(db, l) ==
    IF l.user_id = None
      THEN [db |-> db, loc |-> Return(l, "error", 500)]
    ELSE [db  |-> [db EXCEPT !.queue = db.queue \cup {QueueRow(db, l.user_id, l.code)},
                             !.now = db.now + 1],
          loc |-> Return(l, "joined", 200)]

JoinStep(db, l) ==
    CASE l.pc = "join_check"  -> JoinCheck(db, l)
      [] l.pc = "join_commit" -> JoinCommit(db, l)

RECURSIVE RunJoin(_, _)
RunJoin(db, l) ==
    IF l.pc = "done" THEN [db |-> db, loc |-> l]
    ELSE LET r == JoinStep(db, l) IN RunJoin(r.db, r.loc)

api_queue_join(db, user_id, code) ==
    RunJoin(db, NewReq("join", user_id, code, "join_check"))

\* A leave that deletes the oldest row of the student only.
api_queue_leave_FirstRow(db, user_id, code) ==
    LET rows == {r \in db.queue : r.user_id = user_id /\ r.student_id = code}
        first == {r \in rows : \A o \in rows : r.joined_ts <= o.joined_ts}
    IN  [db  |-> [db EXCEPT !.queue = db.queue \ first],
         loc |-> Return(NewReq("leave", user_id, code, "leave"), "left", 200)]

\* api_queue_leave and api_queue_delete: one DELETE, committed.
api_queue_leave(db, user_id, code) ==
    [db  |-> [db EXCEPT !.queue =
                 {r \in db.queue : ~(r.user_id = user_id /\ r.student_id = code)}],
     loc |-> Return(NewReq("leave", user_id, code, "leave"), "left", 200)]

\* api_override_end: ends the current holder (the oldest open session).
api_override_end(db, user_id) ==
    LET holder == get_current_holder(db, user_id)
        l == NewReq("override_end", user_id, <<>>, "override_end")
    IN  IF holder = {}
          THEN [db |-> db, loc |-> Return(l, "no_one_out", 400)]
        ELSE LET s == CHOOSE x \in holder : TRUE
                 upd(r) == IF r.id = s.id
                             THEN [r EXCEPT !.end_ts = db.now, !.ended_by = "override"]
                           ELSE r
             IN  [db  |-> [db EXCEPT !.sessions = {upd(r) : r \in db.sessions},
                                     !.now = db.now + 1],
                  loc |-> Return(l, "override", 200)]

\* max that keeps its second argument.
Max_TakesSecond(a, b) == b

Max(a, b) == IF a >= b THEN a ELSE b

\* Values of a JSON request body: a whole number, a number with a fraction (in
\* tenths), a string (the sequence of its characters), true/false, null.
JNum(n)   == [kind |-> "int", num |-> n, text |-> <<>>]
JFloat(n) == [kind |-> "float", num |-> n, text |-> <<>>]
JStr(s)   == [kind |-> "str", num |-> 0, text |-> s]
JBool(b)  == [kind |-> "bool", num |-> IF b THEN 1 ELSE 0, text |-> <<>>]
JNull     == [kind |-> "null", num |-> 0, text |-> <<>>]

DigitOf(c) ==
    CASE c = "0" -> 0 [] c = "1" -> 1 [] c = "2" -> 2 [] c = "3" -> 3
      [] c = "4" -> 4 [] c = "5" -> 5 [] c = "6" -> 6 [] c = "7" -> 7
      [] c = "8" -> 8 [] c = "9" -> 9 [] OTHER -> -1

\* str.strip() of the blanks at both ends.
RECURSIVE Strip(_)
Strip(s) ==
    IF s = <<>> THEN s
    ELSE IF Head(s) = " " THEN Strip(Tail(s))
    ELSE IF s[Len(s)] = " " THEN Strip(SubSeq(s, 1, Len(s) - 1))
    ELSE s

\* The value of a run of decimal digits.
RECURSIVE DigitsValue(_)
DigitsValue(s) ==
    IF s = <<>> THEN 0
    ELSE DigitsValue(SubSeq(s, 1, Len(s) - 1)) * 10 + DigitOf(s[Len(s)])

\* Python's int(v): ok is FALSE where it raises (ValueError for a string
\* that is not an optional sign and decimal digits, TypeError for None); a
\* float is truncated towards zero, a bool is 0 or 1.
int(v) ==
    CASE v.kind = "int"   -> [ok |-> TRUE, val |-> v.num]
      [] v.kind = "bool"  -> [ok |-> TRUE, val |-> v.num]
      [] v.kind = "float" ->
            [ok |-> TRUE,
             val |-> IF v.num >= 0 THEN v.num \div 10 ELSE -((-v.num) \div 10)]
      [] v.kind = "str"   ->
            LET s      == Strip(v.text)
                signed == s # <<>> /\ Head(s) \in {"-", "+"}
                digits == IF signed THEN Tail(s) ELSE s
                ok     == /\ digits # <<>>
                          /\ \A i \in 1..Len(digits) : DigitOf(digits[i]) >= 0
            IN  IF ~ok THEN [ok |-> FALSE, val |-> 0]
                ELSE [ok |-> TRUE,
                      val |-> IF signed /\ Head(s) = "-" THEN -DigitsValue(digits)
                              ELSE DigitsValue(digits)]
      [] OTHER -> [ok |-> FALSE, val |-> 0]

\* update_settings_api: every key present in the request body is written.
update_settings_api(db, user_id, data) ==
    LET s  == db.settings[user_id]
        has(k) == k \in DOMAIN data
        s1 == [capacity |-> IF has("capacity") /\ int(data.capacity).ok
                              THEN Max(1, int(data.capacity).val)
                            ELSE s.capacity,
               overdue_minutes |-> IF has("overdue_minutes")
                                        /\ int(data.overdue_minutes).ok
                                     THEN Max(1, int(data.overdue_minutes).val)
                                   ELSE s.overdue_minutes,
               kiosk_suspended |-> IF has("kiosk_suspended") THEN data.kiosk_suspended
                                   ELSE s.kiosk_suspended,
               auto_ban_overdue |-> IF has("auto_ban_overdue") THEN data.auto_ban_overdue
                                    ELSE s.auto_ban_overdue,
               auto_promote_queue |-> IF has("auto_promote_queue")
                                        THEN data.auto_promote_queue
                                      ELSE s.auto_promote_queue,
               enable_queue |-> IF has("enable_queue") THEN data.enable_queue
                                ELSE s.enable_queue]
    IN  [db  |-> [db EXCEPT !.settings = [db.settings EXCEPT ![user_id] = s1]],
         loc |-> Return(NewReq("settings", user_id, <<>>, "settings_update"),
                        "updated", 200)]

\* api_roster_ban: the admin panel sends the name_hash of the roster row.
api_roster_ban(db, user_id, hash_key, should_ban) ==
    LET rows == {r \in db.student_name :
                    r.user_id = user_id /\ r.name_hash = hash_key}
        l == NewReq("roster_ban", user_id, <<>>, "roster_ban")
    IN  IF rows = {}
          THEN [db |-> db, loc |-> Return(l, "not_found", 404)]
        ELSE LET student == CHOOSE r \in rows : TRUE
             IN  [db  |-> [db EXCEPT !.student_name = (db.student_name \ {student})
                              \cup {[student EXCEPT !.banned = should_ban]}],
                  loc |-> Return(l, "ok", 200)]

\* api_ban_student / api_unban_student: through BanService.set_student_banned.
api_ban_student(db, user_id, student_id, banned_status) ==
    LET l == NewReq("ban_student", user_id, student_id, "ban_student")
        rows == NameRows(db, user_id, hash_student_id(student_id, None))
    IN  IF get_student_name(db, user_id, student_id, <<"Student">>) = <<"Student">>
          THEN [db |-> db, loc |-> Return(l, "not_found", 404)]
        ELSE IF rows = {}
          THEN [db |-> db, loc |-> Return(l, "failed", 500)]
        ELSE [db  |-> [db EXCEPT !.student_name =
                          set_student_banned(db, user_id, student_id, banned_status)],
              loc |-> Return(l, "ok", 200)]

\* ------------------------------------------------------------------------
\* The state machine: requests served one at a time
\* ------------------------------------------------------------------------
Procs == {1, 2}

\* What is kept of the last request served when it was a scan: the request,
\* its response, and the number of open sessions its tenant had when it
\* arrived.
Served(l, open_before, after_started) ==
    [op |-> l.op, user_id |-> l.user_id, code |-> l.code, action |-> l.action,
     status |-> l.status, next_student |-> l.next_student,
     open_before |-> open_before,
     \* when the request served just before was a scan of the same code in
     \* the same tenant that returned "started": the open sessions that scan
     \* found; -1 otherwise
     after_started |-> after_started]

\* No scan was the last request served.
NoScan == Served(Idle, 0, -1)

NoPayload == [payload |-> [taken |-> FALSE], user_id |-> None, at |-> 0]

\* Bodies of the settings requests the admin panel sends.
SettingsInputs ==
    {[capacity |-> JNum(1)], [capacity |-> JNum(2)],
     [enable_queue |-> TRUE, auto_promote_queue |-> TRUE],
     [enable_queue |-> FALSE],
     [kiosk_suspended |-> TRUE], [kiosk_suspended |-> FALSE]}

\* Bodies that switch on the queue and the auto-ban.
BanSettingsInputs ==
    {[enable_queue |-> TRUE, auto_promote_queue |-> TRUE],
     [auto_ban_overdue |-> TRUE, overdue_minutes |-> JNum(1)]}

\* After construction: default settings, empty tables, the roster uploaded.
Init ==
    /\ settings = [u \in Users |-> DefaultSettings]
    /\ sessions = {}
    /\ queue = {}
    /\ student_name = {RosterRow(u, s, FALSE) : u \in Users, s \in Students}
    /\ now = 1
    /\ last = NoScan
    /\ reqs = [p \in Procs |-> Idle]
    /\ seen = NoPayload

OpenCount(user_id) == Len(get_open_sessions(DB, user_id))

\* The database after a handler has run, and its response.
Serve(r) ==
    /\ r.db.now <= MaxTime
    /\ Cardinality(r.db.sessions) <= MaxSessions
    /\ settings' = r.db.settings
    /\ sessions' = r.db.sessions
    /\ queue' = r.db.queue
    /\ student_name' = r.db.student_name
    /\ now' = r.db.now
    /\ last' = IF r.loc.op = "scan"
                 THEN Served(r.loc, OpenCount(r.loc.user_id),
                             IF /\ last.op = "scan" /\ last.action = "started"
                                /\ last.code = r.loc.code
                                /\ last.user_id = r.loc.user_id
                               THEN last.open_before ELSE -1)
               ELSE NoScan
    /\ UNCHANGED <<reqs, seen>>

Scan == \E u \in Users, code \in Codes : Serve(api_scan(DB, u, code))

QueueJoin == \E u \in Users, code \in Students : Serve(api_queue_join(DB, u, code))

QueueLeave == \E u \in Users, code \in Students : Serve(api_queue_leave(DB, u, code))

OverrideEnd == \E u \in Users : Serve(api_override_end(DB, u))

UpdateSettings(inputs) ==
    \E u \in Users, data \in inputs : Serve(update_settings_api(DB, u, data))

RosterBan ==
    \E u \in Users, s \in Students, b \in BOOLEAN :
        Serve(api_roster_ban(DB, u, InlineHash(u, s), b))

BanStudent ==
    \E u \in Users, s \in Students, b \in BOOLEAN :
        Serve(api_ban_student(DB, u, s, b))

\* Time passes between requests.
Tick ==
    /\ now < MaxTime
    /\ now' = now + 1
    /\ last' = NoScan
    /\ UNCHANGED <<settings, sessions, queue, student_name, reqs, seen>>

Next ==
    \/ Scan
    \/ QueueJoin
    \/ QueueLeave
    \/ OverrideEnd
    \/ UpdateSettings(SettingsInputs)

Spec == Init /\ [][Next]_vars

\* The same kiosk with the ban endpoints and the auto-ban switched on by
\* the admin, and with time passing.
NextBan ==
    \/ Scan
    \/ QueueJoin
    \/ RosterBan
    \/ BanStudent
    \/ UpdateSettings(BanSettingsInputs)
    \/ Tick

SpecBan == Init /\ [][NextBan]_vars

\* ------------------------------------------------------------------------
\* The status payload
\* ------------------------------------------------------------------------
\* to_local(ts).isoformat(): the timestamp rendered as a string.
isoformat(ts) == <<"iso", ts>>

\* _build_status_payload, src/app.py 278-335.
build_status_payload(db, user_id) ==
    LET st   == get_settings(db, user_id)
        open == get_open_sessions(db, user_id)
        s    == get_current_holder(db, user_id)
        q    == QueueOrdered(db, user_id)
        over(x) == duration_seconds(x, db.now) > st.overdue_minutes * 60
        active_sessions ==
            [i \in 1..Len(open) |->
                [id |-> open[i].id,
                 name |-> get_student_name(db, user_id, open[i].student_id, <<"Student">>),
                 elapsed |-> duration_seconds(open[i], db.now),
                 overdue |-> over(open[i]),
                 start |-> isoformat(open[i].start_ts)]]
        queue_list ==
            [i \in 1..Len(q) |->
                [name |-> get_student_name(db, user_id, q[i].student_id, <<"Unknown">>),
                 student_id |-> q[i].student_id]]
        holder == CHOOSE x \in s : TRUE
    IN  [taken |-> TRUE,
         overdue_minutes |-> st.overdue_minutes,
         kiosk_suspended |-> st.kiosk_suspended,
         auto_ban_overdue |-> st.auto_ban_overdue,
         auto_promote_queue |-> st.auto_promote_queue,
         capacity |-> st.capacity,
         active_sessions |-> active_sessions,
         queue |-> [i \in 1..Len(q) |-> queue_list[i].name],
         queue_list |-> queue_list,
         in_use |-> s # {},
         name |-> IF s # {}
                    THEN get_student_name(db, user_id, holder.student_id, <<"Student">>)
                  ELSE <<>>,
         start |-> IF s # {} THEN isoformat(holder.start_ts) ELSE <<"absent">>,
         elapsed |-> IF s # {} THEN duration_seconds(holder, db.now) ELSE 0,
         overdue |-> IF s # {} THEN over(holder) ELSE FALSE]

\* ------------------------------------------------------------------------
\* The state machine: requests served concurrently
\* ------------------------------------------------------------------------
\* Every request runs in its own worker with its own database session and
\* no lock; each statement sees what has been committed so far.  Every
\* process serves one request, from a state the kiosk can be in when the
\* requests arrive.

\* Settings the tenant can have when the requests arrive.
ConcSettings ==
    {[DefaultSettings EXCEPT !.capacity = c, !.enable_queue = e[1],
                             !.auto_promote_queue = e[2]] :
        c \in {1, 2}, e \in {<<FALSE, FALSE>>, <<TRUE, FALSE>>, <<TRUE, TRUE>>}}

\* Tables the tenant can have: empty; A out; A out and B waiting.
SessionOfA == [id |-> 1, student_id |-> <<"A">>, start_ts |-> 1, end_ts |-> NoTs,
               ended_by |-> NoEnd, user_id |-> 1]
QueueOfB == [student_id |-> <<"B">>, user_id |-> 1, joined_ts |-> 2]

InitConc ==
    /\ settings \in [Users -> ConcSettings]
    /\ \/ sessions = {} /\ queue = {}
       \/ sessions = {SessionOfA} /\ queue = {}
       \/ sessions = {SessionOfA} /\ queue = {QueueOfB}
    /\ student_name = {RosterRow(u, s, FALSE) : u \in Users, s \in Students}
    /\ now = 3
    /\ last = NoScan
    /\ reqs = [p \in Procs |-> Idle]
    /\ seen = NoPayload

\* One statement of the handler of process p.
Step(p, r) ==
    /\ r.db.now <= MaxTime
    /\ Cardinality(r.db.sessions) <= MaxSessions
    /\ settings' = r.db.settings
    /\ sessions' = r.db.sessions
    /\ queue' = r.db.queue
    /\ student_name' = r.db.student_name
    /\ now' = r.db.now
    /\ reqs' = [reqs EXCEPT ![p] = r.loc]
    /\ UNCHANGED <<last, seen>>

At(p, op, pc) == reqs[p].op = op /\ reqs[p].pc = pc

\* A scan arrives and runs up to its identity lookup.
ScanArrive(p) ==
    /\ reqs[p].pc = "idle"
    /\ \E u \in Users, code \in Students :
          Step(p, ScanSettings(DB, NewReq("scan", u, code, "settings")))

ScanReadSessions(p) == At(p, "scan", "sessions") /\ Step(p, ScanSessions(DB, reqs[p]))
ScanAutoBan(p) == At(p, "scan", "end_ban") /\ Step(p, ScanEndBan(DB, reqs[p]))
ScanCommitEnd(p) == At(p, "scan", "end_commit") /\ Step(p, ScanEndCommit(DB, reqs[p]))
ScanAutoPromote(p) == At(p, "scan", "promote") /\ Step(p, ScanPromote(DB, reqs[p]))
ScanCheckBan(p) == At(p, "scan", "ban_check") /\ Step(p, ScanBanCheck(DB, reqs[p]))
ScanCheckQueue(p) == At(p, "scan", "queue_lock") /\ Step(p, ScanQueueLock(DB, reqs[p]))
ScanCheckCapacity(p) == At(p, "scan", "capacity") /\ Step(p, ScanCapacity(DB, reqs[p]))
ScanCommitStart(p) == At(p, "scan", "start") /\ Step(p, ScanStart(DB, reqs[p]))

\* A join arrives and checks the queue; then it inserts.
JoinArrive(p) ==
    /\ reqs[p].pc = "idle"
    /\ \E u \in Users, code \in Students :
          Step(p, JoinCheck(DB, NewReq("join", u, code, "join_check")))

JoinInsert(p) == At(p, "join", "join_commit") /\ Step(p, JoinCommit(DB, reqs[p]))

\* api_status: a display reads the payload of what is committed; at is the
\* clock when it did.
ApiStatus ==
    /\ \E u \in Users :
          seen' = [payload |-> build_status_payload(DB, u), user_id |-> u, at |-> now]
    /\ UNCHANGED <<settings, sessions, queue, student_name, now, last, reqs>>

NextConc ==
    \/ \E p \in Procs : ScanArrive(p)
    \/ \E p \in Procs : ScanReadSessions(p)
    \/ \E p \in Procs : ScanAutoBan(p)
    \/ \E p \in Procs : ScanCommitEnd(p)
    \/ \E p \in Procs : ScanAutoPromote(p)
    \/ \E p \in Procs : ScanCheckBan(p)
    \/ \E p \in Procs : ScanCheckQueue(p)
    \/ \E p \in Procs : ScanCheckCapacity(p)
    \/ \E p \in Procs : ScanCommitStart(p)
    \/ \E p \in Procs : JoinArrive(p)
    \/ \E p \in Procs : JoinInsert(p)
    \/ ApiStatus

SpecConc == InitConc /\ [][NextConc]_vars

\* ------------------------------------------------------------------------
\* Vocabulary of the properties
\* ------------------------------------------------------------------------
OpenOf(user_id) == {s \in sessions : s.user_id = user_id /\ s.end_ts = NoTs}
HasOpen(user_id, student_id) == \E s \in OpenOf(user_id) : s.student_id = student_id
Queued(user_id, student_id) ==
    \E q \in queue : q.user_id = user_id /\ q.student_id = student_id
\* The ban flag of the student's roster row.
BanFlag(user_id, student_id) == RosterRow(user_id, student_id, TRUE) \in student_name
\* a joined the queue of the tenant before b did, and both are waiting.
QueuedBefore(user_id, a, b) ==
    \E qa, qb \in queue :
        /\ qa.user_id = user_id /\ qb.user_id = user_id
        /\ qa.student_id = a /\ qb.student_id = b
        /\ qa.joined_ts < qb.joined_ts
\* The responses of an END scan.
Ended == {"ended", "ended_banned", "ended_auto_started"}
\* The step serves a scan of this code in this tenant.
ScanServed(user_id, code) ==
    last'.op = "scan" /\ last'.user_id = user_id /\ last'.code = code
\* Session rows the step inserts.
Opened == {s \in sessions' : \A o \in sessions : o.id # s.id}

\* ------------------------------------------------------------------------
\* C1
\* ------------------------------------------------------------------------
\* The requests in flight are scans of distinct students that arrived at a
\* tenant with no session and no queue row.
BatchOfScans ==
    /\ \A p \in Procs : reqs[p].op \in {"none", "scan"}
    /\ \A p, q \in Procs : (p # q /\ reqs[p].op = "scan" /\ reqs[q].op = "scan")
                              => reqs[p].code # reqs[q].code
    /\ \A s \in sessions : s.start_ts # SessionOfA.start_ts
    /\ \A q \in queue : q.joined_ts # QueueOfB.joined_ts

\* C1: for any interleaving of concurrent scans of distinct students against
\* an empty tenant of capacity C, at most C scans return started, every
\* other scan that has returned was queued or denied, and the tenant never
\* has more than C open sessions.
C1_CapacityUnderInterleaving ==
    \A u \in Users :
        BatchOfScans =>
            /\ Cardinality({p \in Procs : reqs[p].action = "started"})
                  <= settings[u].capacity
            /\ \A p \in Procs : reqs[p].pc = "done" =>
                  reqs[p].action \in {"started", "queued", "denied"}
            /\ Cardinality(OpenOf(u)) <= settings[u].capacity

\* ------------------------------------------------------------------------
\* C2
\* ------------------------------------------------------------------------
\* C2: after every scan, with requests served one at a time and mixed with
\* queue and admin requests, the open sessions of the tenant number at most
\* its current capacity.
C2_OpenWithinCapacityAfterScan ==
    last.op = "scan" => Cardinality(OpenOf(last.user_id)) <= settings[last.user_id].capacity

\* ------------------------------------------------------------------------
\* C3
\* ------------------------------------------------------------------------
\* The END scan of p has committed the end of its session.
EndCommitted(p) ==
    reqs[p].op = "scan" /\ reqs[p].s # {} /\ reqs[p].pc \in {"promote", "done"}

\* C3: under any interleaving of concurrent scans no student holds two open
\* sessions at once, and no session is ended by two scans.
C3_NoDoubleStartNoDoubleEnd ==
    /\ \A u \in Users, s \in Students :
          Cardinality({x \in OpenOf(u) : x.student_id = s}) <= 1
    /\ \A p, q \in Procs :
          (p # q /\ EndCommitted(p) /\ EndCommitted(q)) => reqs[p].s # reqs[q].s

\* ------------------------------------------------------------------------
\* C4
\* ------------------------------------------------------------------------
\* C4: in every state reachable by scans, queue requests and admin requests,
\* no student both holds an open session and waits in the queue of a tenant.
C4_OpenAndQueuedDisjoint ==
    \A u \in Users, s \in Students : ~(HasOpen(u, s) /\ Queued(u, s))

\* ------------------------------------------------------------------------
\* C5
\* ------------------------------------------------------------------------
\* C5: in every state reachable by concurrent scans and joins the queue of a
\* tenant holds at most one row per student.
C5_OneQueueRowPerStudent ==
    \A u \in Users, s \in Students :
        Cardinality({q \in queue : q.user_id = u /\ q.student_id = s}) <= 1

\* ------------------------------------------------------------------------
\* C6
\* ------------------------------------------------------------------------
\* C6: no step opens a session for a student whose ban flag is set when the
\* session is opened.
C6_NoSessionOpenedForBanned ==
    [][\A s \in Opened : ~BanFlag(s.user_id, s.student_id)]_vars

\* ------------------------------------------------------------------------
\* C7
\* ------------------------------------------------------------------------
\* C7: a scan of a student whose ban flag is set ends the student's open
\* session when there is one, and otherwise returns banned (403), opens no
\* session and adds no queue row.
C7_BanBlocksStartsNotEnds ==
    [][\A u \in Users, s \in Students :
          (ScanServed(u, s) /\ BanFlag(u, s)) =>
              IF HasOpen(u, s)
                THEN last'.action \in Ended /\ ~HasOpen(u, s)'
              ELSE /\ last'.action = "banned" /\ last'.status = 403
                   /\ sessions' = sessions /\ queue' = queue]_vars

\* ------------------------------------------------------------------------
\* C8
\* ------------------------------------------------------------------------
\* No queued student starts a session while a student who joined earlier is
\* still queued.
NoStartOutOfTurn ==
    \A s \in Opened : \A a \in Students :
        ~QueuedBefore(s.user_id, a, s.student_id)

\* C8 as claimed: with a queued before b, every scan of b returns
\* denied_queue_position and starts nothing, and no queued student starts
\* out of turn.
C8_StillWaitingEveryScan ==
    [][/\ \A u \in Users, a, b \in Students :
            (ScanServed(u, b) /\ QueuedBefore(u, a, b)) =>
                /\ last'.action = "denied_queue_position"
                /\ sessions' = sessions /\ queue' = queue
       /\ NoStartOutOfTurn]_vars

\* C8 as amended: with a queued before b, a scan of the roster student b,
\* made while the kiosk is not suspended and b is not banned, returns
\* denied_queue_position (409) and changes neither sessions nor queue,
\* whatever the capacity, when b holds no open session, and ends b's open
\* session when b holds one; and no queued student starts out of turn.
C8_StillWaitingBehindEarlier ==
    [][/\ \A u \in Users, a, b \in Students :
            (/\ ScanServed(u, b) /\ QueuedBefore(u, a, b)
             /\ ~settings[u].kiosk_suspended
             /\ ~BanFlag(u, b)) =>
                IF HasOpen(u, b)
                  THEN last'.action \in Ended /\ ~HasOpen(u, b)'
                ELSE /\ last'.action = "denied_queue_position"
                     /\ last'.status = 409
                     /\ sessions' = sessions /\ queue' = queue
       /\ NoStartOutOfTurn]_vars

\* b was told to keep waiting behind a although a slot is free.
C8_Witness ==
    /\ last.op = "scan" /\ last.action = "denied_queue_position"
    /\ \E a \in Students : QueuedBefore(last.user_id, a, last.code)
    /\ Cardinality(OpenOf(last.user_id)) < settings[last.user_id].capacity

\* ------------------------------------------------------------------------
\* C9
\* ------------------------------------------------------------------------
\* The END scan of p has closed the only open session of its tenant and is
\* about to promote the head of the queue.
PromotionPending(p) ==
    /\ At(p, "scan", "promote")
    /\ reqs[p].settings.enable_queue /\ reqs[p].settings.auto_promote_queue
    /\ QueueRows(DB, reqs[p].user_id) # {}
    /\ OpenOf(reqs[p].user_id) = {}

\* C9: ending the only open session and starting the head of the queue is
\* one atomic step: no status request sees the session closed while the
\* head is still queued without a session.
C9_PromotionAtomic ==
    \A p \in Procs :
        PromotionPending(p) =>
            ~(/\ seen.at = now /\ seen.user_id = reqs[p].user_id
              /\ seen.payload.taken /\ ~seen.payload.in_use
              /\ seen.payload.queue_list # <<>>)

\* ------------------------------------------------------------------------
\* C10
\* ------------------------------------------------------------------------
\* C10 as claimed: a scan that directly follows a started scan of the same
\* student returns ended, and the open sessions are back at the number the
\* first scan found.
C10_ToggleRestoresCount ==
    (last.op = "scan" /\ last.after_started >= 0) =>
        /\ last.action \in Ended
        /\ Cardinality(OpenOf(last.user_id)) = last.after_started

\* C10 as amended: the second scan returns ended; the open sessions are back
\* at the number the first scan found when the END scan promoted nobody,
\* and one more when it promoted the head of the queue.
C10_ToggleRestoresCountUnlessPromoted ==
    (last.op = "scan" /\ last.after_started >= 0) =>
        /\ last.action \in Ended
        /\ (last.action = "ended_auto_started") = (last.next_student # {})
        /\ Cardinality(OpenOf(last.user_id)) =
              last.after_started + (IF last.next_student # {} THEN 1 ELSE 0)

\* The second scan of a toggle ended the session and promoted the head of
\* the queue: one session more is open than the first scan found.
C10_Witness ==
    /\ last.op = "scan" /\ last.after_started >= 0
    /\ last.action = "ended_auto_started" /\ last.next_student # {}
    /\ Cardinality(OpenOf(last.user_id)) = last.after_started + 1

\* ------------------------------------------------------------------------
\* C11
\* ------------------------------------------------------------------------
\* The open session of the student has run longer than the tenant's overdue
\* threshold while the auto-ban is switched on.
OverdueForAutoBan(user_id, student_id) ==
    /\ settings[user_id].auto_ban_overdue
    /\ \E s \in OpenOf(user_id) :
          /\ s.student_id = student_id
          /\ duration_seconds(s, now) > settings[user_id].overdue_minutes * 60

\* C11: an END scan of a student whose session is overdue, with the auto-ban
\* on, sets the student's ban flag when it was not set; every other END scan
\* changes no ban flag.
C11_AutoBanSetsFlagOnce ==
    [][\A u \in Users, s \in Students :
          (ScanServed(u, s) /\ HasOpen(u, s) /\ last'.action \in Ended) =>
              IF OverdueForAutoBan(u, s) /\ ~BanFlag(u, s)
                THEN BanFlag(u, s)'
              ELSE student_name' = student_name]_vars

\* ------------------------------------------------------------------------
\* C12
\* ------------------------------------------------------------------------
\* The tenant runs the example's configuration: capacity 1, queue and
\* auto-promote enabled, kiosk not suspended.
ExampleSettings(user_id) ==
    /\ settings[user_id].capacity = 1
    /\ settings[user_id].enable_queue /\ settings[user_id].auto_promote_queue
    /\ ~settings[user_id].kiosk_suspended

\* The students of the tenant's queue, head first.
QueueOf(user_id) ==
    LET q == QueueOrdered(DB, user_id) IN [i \in 1..Len(q) |-> q[i].student_id]

\* The students who hold an open session of the tenant.
Holders(user_id) == {s.student_id : s \in OpenOf(user_id)}

\* C12: with capacity 1, queue and auto-promote enabled, from a tenant with
\* no open session and an empty queue: scan A returns started and A is the
\* only holder; then scan B returns queued and the queue is B alone; then
\* scan A returns ended with B promoted, after which B holds the only open
\* session, the queue is empty and the status payload shows in_use with B
\* as holder.
C12_StartQueuePromote ==
    [][\A u \in Users, a, b \in Students :
          (a # b /\ ExampleSettings(u)) =>
              /\ (ScanServed(u, a) /\ Holders(u) = {} /\ QueueOf(u) = <<>>) =>
                    /\ last'.action = "started"
                    /\ Holders(u)' = {a} /\ QueueOf(u)' = <<>>
              /\ (ScanServed(u, b) /\ Holders(u) = {a} /\ QueueOf(u) = <<>>) =>
                    /\ last'.action = "queued"
                    /\ Holders(u)' = {a} /\ QueueOf(u)' = <<b>>
              /\ (ScanServed(u, a) /\ Holders(u) = {a} /\ QueueOf(u) = <<b>>) =>
                    /\ last'.action = "ended_auto_started"
                    /\ last'.next_student = {b}
                    /\ Holders(u)' = {b} /\ Cardinality(OpenOf(u))' = 1
                    /\ QueueOf(u)' = <<>>
                    /\ build_status_payload(DB, u)'.in_use
                    /\ build_status_payload(DB, u)'.name
                          = get_student_name(DB, u, b, <<"Student">>)]_vars

\* The example has run from the empty tenant: A started at 1, B queued at 2,
\* A ended at 3 and B was promoted at 4.
C12_Witness ==
    /\ last.op = "scan" /\ last.code = <<"A">> /\ last.action = "ended_auto_started"
    /\ last.next_student = {<<"B">>}
    /\ ExampleSettings(last.user_id)
    /\ queue = {}
    /\ sessions = {[id |-> 1, student_id |-> <<"A">>, start_ts |-> 1, end_ts |-> 3,
                    ended_by |-> "kiosk_scan", user_id |-> last.user_id],
                   [id |-> 2, student_id |-> <<"B">>, start_ts |-> 4, end_ts |-> NoTs,
                    ended_by |-> "auto", user_id |-> last.user_id]}

\* ------------------------------------------------------------------------
\* The kiosk with requests that resolve to no tenant (legacy mode)
\* ------------------------------------------------------------------------
\* A StudentName row as api_upload_session_roster stores it for a legacy
\* admin: user_id NULL, the hash taken without user_id.
LegacyRosterRow(student_id) ==
    [user_id |-> None, name_hash |-> hash_student_id(student_id, None),
     encrypted_id |-> student_id, display_name |-> <<"name">> \o student_id,
     banned |-> FALSE]

\* The tenant's roster and the legacy roster have been uploaded.
InitLegacy ==
    /\ settings = [u \in Users |-> DefaultSettings]
    /\ sessions = {}
    /\ queue = {}
    /\ student_name = {RosterRow(u, s, FALSE) : u \in Users, s \in Students}
                         \cup {LegacyRosterRow(s) : s \in Students}
    /\ now = 1
    /\ last = NoScan
    /\ reqs = [p \in Procs |-> Idle]
    /\ seen = NoPayload

\* A scan without token and without login: get_current_user_id gives None.
LegacyScan == \E code \in Codes : Serve(api_scan(DB, None, code))

NextLegacy ==
    \/ Scan
    \/ LegacyScan
    \/ QueueJoin
    \/ UpdateSettings(SettingsInputs)

SpecLegacy == InitLegacy /\ [][NextLegacy]_vars

\* ------------------------------------------------------------------------
\* C13
\* ------------------------------------------------------------------------
\* What a tenant owns: its rows of the three tables.
Own(db, user_id) ==
    [db EXCEPT !.sessions = {s \in db.sessions : s.user_id = user_id},
               !.queue = {q \in db.queue : q.user_id = user_id},
               !.student_name = {r \in db.student_name : r.user_id = user_id}]

C14_SuspendedRejectsEveryScan ==
    [][\A u \in Users, code \in Codes :
          (ScanServed(u, code) /\ settings[u].kiosk_suspended) =>
              /\ last'.action = "suspended" /\ last'.status = 403
              /\ sessions' = sessions /\ queue' = queue
              /\ student_name' = student_name]_vars

\* A student who holds an open session scanned at the suspended kiosk and
\* was rejected; the session is still open.
C14_Witness ==
    /\ last.op = "scan" /\ last.action = "suspended" /\ last.status = 403
    /\ settings[last.user_id].kiosk_suspended
    /\ HasOpen(last.user_id, last.code)

\* ------------------------------------------------------------------------
\* C15
\* ------------------------------------------------------------------------
\* The responses that reject a scan.
Rejections == {"suspended", "unknown", "banned", "denied_queue_position", "denied"}

\* C15: a scan that is rejected (suspended, unknown code, banned, still
\* waiting, denied) leaves sessions, queue rows with their order, and ban
\* flags exactly as they were.
C15_RejectionChangesNothing ==
    [][\A u \in Users, code \in Codes :
          (ScanServed(u, code) /\ last'.action \in Rejections) =>
              /\ last'.status \in {403, 404, 409}
              /\ sessions' = sessions /\ queue' = queue
              /\ QueueOf(u)' = QueueOf(u)
              /\ student_name' = student_name]_vars

\* The head of the queue scanned while the tenant was at capacity with
\* queueing disabled: denied, and still the head.
C15_Witness ==
    /\ last.op = "scan" /\ last.action = "denied" /\ last.status = 409
    /\ ~settings[last.user_id].enable_queue
    /\ QueueOf(last.user_id) # <<>> /\ QueueOf(last.user_id)[1] = last.code
    /\ Cardinality(OpenOf(last.user_id)) >= settings[last.user_id].capacity

\* ------------------------------------------------------------------------
\* The kiosk with store writes that fail
\* ------------------------------------------------------------------------
\* The statements of api_scan that end in db.session.commit().
CommitPcs == {"end_commit", "promote", "queue_lock", "capacity", "start"}

\* api_scan when the commit of the statement at fail_pc raises: api_scan
\* catches nothing, the exception ends the request with a 500 and the
\* teardown rolls the open transaction back; what earlier statements of the
\* request committed stays committed.
RECURSIVE RunScanFailing(_, _, _)
RunScanFailing(db, l, fail_pc) ==
    IF l.pc = "done" THEN [db |-> db, loc |-> l]
    ELSE LET r == ScanStep(db, l)
         IN  IF l.pc = fail_pc /\ r.db # db
               THEN [db |-> db, loc |-> Return(l, "error", 500)]
             ELSE RunScanFailing(r.db, r.loc, fail_pc)

\* A scan one of whose commits fails.
FailingScan ==
    \E u \in Users, code \in Students, fail_pc \in CommitPcs :
        LET r == RunScanFailing(DB, NewReq("scan", u, code, "settings"), fail_pc)
        IN  r.loc.action = "error" /\ Serve(r)

NextFail ==
    \/ Scan
    \/ FailingScan
    \/ QueueJoin
    \/ UpdateSettings(SettingsInputs)

SpecFail == Init /\ [][NextFail]_vars

\* ------------------------------------------------------------------------
\* C16
\* ------------------------------------------------------------------------
\* C16: a scan one of whose store writes fails reports an error and leaves
\* sessions, queue and ban flags as they were before the scan.
C16_FailedScanChangesNothing ==
    [][\A u \in Users, code \in Students :
          (ScanServed(u, code) /\ last'.action = "error") =>
              /\ last'.status = 500
              /\ sessions' = sessions /\ queue' = queue
              /\ student_name' = student_name]_vars

\* ------------------------------------------------------------------------
\* C17
\* ------------------------------------------------------------------------
\* The student is the head of the tenant's non-empty queue, holds no open
\* session and is not banned.
HeadWithoutSession(user_id, student_id) ==
    /\ QueueOf(user_id) # <<>> /\ QueueOf(user_id)[1] = student_id
    /\ ~HasOpen(user_id, student_id)
    /\ ~BanFlag(user_id, student_id)

\* The step takes the student out of the queue and opens exactly one
\* session, the student's.
StartsFromQueue(user_id, student_id) ==
    /\ last'.action = "started" /\ last'.status = 200
    /\ ~Queued(user_id, student_id)'
    /\ Cardinality(Opened) = 1
    /\ \A s \in Opened : s.user_id = user_id /\ s.student_id = student_id
                            /\ s.end_ts = NoTs
    /\ \A o \in sessions : o \in sessions'

OutsiderOfQueue(user_id, student_id) ==
    /\ QueueOf(user_id) # <<>> /\ ~Queued(user_id, student_id)
    /\ ~HasOpen(user_id, student_id)
    /\ ~BanFlag(user_id, student_id)

\* The step starts nothing; with queueing enabled it puts the student at the
\* back of the queue, with queueing disabled it changes nothing.
QueuedAtBackOrDenied(user_id, student_id) ==
    /\ sessions' = sessions
    /\ IF settings[user_id].enable_queue
         THEN /\ last'.action = "queued" /\ last'.status = 200
              /\ QueueOf(user_id)' = Append(QueueOf(user_id), student_id)
       ELSE /\ last'.action = "denied" /\ last'.status = 409
            /\ queue' = queue

\* C18 as claimed: with a non-empty queue, the scan of a student who is not
\* in the queue never starts a session, even with a free slot: it appends
\* the student at the back (queueing enabled, queued) or changes nothing
\* (queueing disabled, denied).
C18_OutsiderQueuedOrDenied ==
    [][\A u \in Users, s \in Students :
          (ScanServed(u, s) /\ OutsiderOfQueue(u, s)) =>
              QueuedAtBackOrDenied(u, s)]_vars

\* C18 as amended: the same of every such scan at a kiosk that is not
\* suspended.
C18_OutsiderQueuedOrDeniedUnlessSuspended ==
    [][\A u \in Users, s \in Students :
          (/\ ScanServed(u, s) /\ OutsiderOfQueue(u, s)
           /\ ~settings[u].kiosk_suspended) =>
              QueuedAtBackOrDenied(u, s)]_vars

\* A student outside the queue scanned while a slot was free and was put
\* behind the student already waiting.
C18_Witness ==
    /\ last.op = "scan" /\ last.action = "queued"
    /\ Len(QueueOf(last.user_id)) = 2 /\ QueueOf(last.user_id)[2] = last.code
    /\ Cardinality(OpenOf(last.user_id)) < settings[last.user_id].capacity

\* ------------------------------------------------------------------------
\* C19
\* ------------------------------------------------------------------------
\* The tenant's queue is empty and the student holds no open session and is
\* not banned.
NewcomerToEmptyQueue(user_id, student_id) ==
    /\ QueueOf(user_id) = <<>>
    /\ ~HasOpen(user_id, student_id)
    /\ ~BanFlag(user_id, student_id)

\* The capacity check and the start, as one step of the tenant: at capacity
\* the student becomes the whole queue (queueing enabled) or nothing changes
\* (queueing disabled); below capacity exactly one session is opened, for
\* this student.
QueuedAloneDeniedOrStarted(user_id, student_id) ==
    IF Cardinality(OpenOf(user_id)) >= settings[user_id].capacity
      THEN /\ sessions' = sessions
           /\ IF settings[user_id].enable_queue
                THEN /\ last'.action = "queued" /\ last'.status = 200
                     /\ QueueOf(user_id)' = <<student_id>>
              ELSE /\ last'.action = "denied" /\ last'.status = 409
                   /\ queue' = queue
    ELSE /\ last'.action = "started" /\ last'.status = 200
         /\ Cardinality(Opened) = 1
         /\ \A s \in Opened : s.user_id = user_id /\ s.student_id = student_id
                                 /\ s.end_ts = NoTs
         /\ \A o \in sessions : o \in sessions'
         /\ queue' = queue

\* C19 as claimed: with an empty queue, the scan of a known, unbanned
\* student without an open session is queued alone or denied when the open
\* sessions have reached the capacity, and starts exactly one session for
\* the student otherwise.
C19_EmptyQueueCapacityOrStart ==
    [][\A u \in Users, s \in Students :
          (ScanServed(u, s) /\ NewcomerToEmptyQueue(u, s)) =>
              QueuedAloneDeniedOrStarted(u, s)]_vars

\* C19 as amended: the same of every such scan at a kiosk that is not
\* suspended.
C19_EmptyQueueCapacityOrStartUnlessSuspended ==
    [][\A u \in Users, s \in Students :
          (/\ ScanServed(u, s) /\ NewcomerToEmptyQueue(u, s)
           /\ ~settings[u].kiosk_suspended) =>
              QueuedAloneDeniedOrStarted(u, s)]_vars

\* A scan at capacity with an empty queue left the scanner as the only
\* student waiting.
C19_Witness ==
    /\ last.op = "scan" /\ last.action = "queued"
    /\ QueueOf(last.user_id) = <<last.code>>
    /\ last.open_before >= settings[last.user_id].capacity
    /\ Cardinality(OpenOf(last.user_id)) = last.open_before

\* ------------------------------------------------------------------------
\* C20
\* ------------------------------------------------------------------------
\* The kiosk with the roster's ban switch next to every capacity and queue
\* setting: students who hold a pass, wait in the queue or not, banned or not.
NextEnd ==
    \/ Scan
    \/ QueueJoin
    \/ RosterBan
    \/ UpdateSettings(SettingsInputs)

SpecEnd == Init /\ [][NextEnd]_vars

\* The step closes one open session of the student, by the scan and at the
\* time of the step, and leaves every other session row as it was.
ClosesOnlyOwnSession(user_id, student_id) ==
    \E o \in OpenOf(user_id) :
        /\ o.student_id = student_id
        /\ [o EXCEPT !.end_ts = now, !.ended_by = "kiosk_scan"] \in sessions'
        /\ \A s \in sessions' : s.id # o.id \/ s.end_ts # NoTs
        /\ \A x \in sessions \ {o} : x \in sessions'

\* C20: at a kiosk that is not suspended, the scan of a student who holds an
\* open session is an END whatever the ban flag, the queue and the capacity
\* are: it returns an Ended response, closes that student's session with
\* end_ts set and ended_by = "kiosk_scan", and changes no other session.
C20_HolderScanEnds ==
    [][\A u \in Users, s \in Students :
          (ScanServed(u, s) /\ ~settings[u].kiosk_suspended /\ HasOpen(u, s)) =>
              /\ last'.action \in Ended /\ last'.status = 200
              /\ ClosesOnlyOwnSession(u, s)]_vars

\* A banned student ended their pass by a scan while the other student was
\* out and went on holding their pass, and someone was waiting.
C20_Witness ==
    /\ last.op = "scan" /\ last.action \in Ended
    /\ BanFlag(last.user_id, last.code)
    /\ \E s \in sessions :
          /\ s.user_id = last.user_id /\ s.student_id = last.code
          /\ s.end_ts = now - 1 /\ s.ended_by = "kiosk_scan"
          /\ \E o \in OpenOf(last.user_id) :
                o.student_id # last.code /\ o.start_ts < s.end_ts
    /\ QueueOf(last.user_id) # <<>>

\* ------------------------------------------------------------------------
\* C21
\* ------------------------------------------------------------------------
\* Bodies that switch the queue and the auto-promotion on and off one by
\* one, and raise the capacity.
PromoteSettingsInputs ==
    {[enable_queue |-> TRUE], [enable_queue |-> FALSE],
     [auto_promote_queue |-> TRUE], [auto_promote_queue |-> FALSE],
     [capacity |-> JNum(2)]}

\* The kiosk with every combination of the two queue switches.
NextPromote ==
    \/ Scan
    \/ QueueJoin
    \/ UpdateSettings(PromoteSettingsInputs)

SpecPromote == Init /\ [][NextPromote]_vars

\* The condition of the auto-promotion.
PromotionDue(user_id) ==
    /\ settings[user_id].enable_queue
    /\ settings[user_id].auto_promote_queue
    /\ QueueOf(user_id) # <<>>

\* C21: an END scan promotes a waiter exactly when the queue and the
\* auto-promotion are both enabled and the queue is non-empty; it promotes
\* the head of the queue and nobody else, takes the head out of the queue and
\* keeps the order of the rest; otherwise it leaves the queue as it was and
\* opens no session.
C21_EndPromotesHeadIffDue ==
    [][\A u \in Users, s \in Students :
          (ScanServed(u, s) /\ last'.action \in Ended) =>
              IF PromotionDue(u)
                THEN /\ last'.action = "ended_auto_started"
                     /\ last'.next_student = {Head(QueueOf(u))}
                     /\ QueueOf(u)' = Tail(QueueOf(u))
                     /\ Cardinality(Opened) = 1
                     /\ \A o \in Opened :
                            /\ o.user_id = u /\ o.end_ts = NoTs
                            /\ o.student_id = Head(QueueOf(u))
              ELSE /\ last'.action # "ended_auto_started"
                   /\ last'.next_student = {}
                   /\ queue' = queue
                   /\ Opened = {}]_vars

\* An END scan promoted the head of a queue of two: the promoted student
\* holds a pass and the other one is still waiting.
C21_Witness ==
    /\ last.op = "scan" /\ last.action = "ended_auto_started"
    /\ Len(QueueOf(last.user_id)) = 1
    /\ \A n \in last.next_student :
          /\ HasOpen(last.user_id, n)
          /\ ~Queued(last.user_id, n)

\* ------------------------------------------------------------------------
\* C22
\* ------------------------------------------------------------------------
\* C22: end_ts and ended_by of a session are written once: every session
\* that is open after a step has ended_by null (from its creation on), and
\* a session that was ended before the step keeps both fields.
C22_EndFieldsWrittenOnce ==
    [][\A t \in sessions' :
          /\ t.end_ts = NoTs => t.ended_by = NoEnd
          /\ \A s \in sessions :
                (s.id = t.id /\ s.end_ts # NoTs) =>
                    (t.end_ts = s.end_ts /\ t.ended_by = s.ended_by)]_vars

\* ------------------------------------------------------------------------
\* C23
\* ------------------------------------------------------------------------
\* api_delete_history (1166-1177), also api_admin_reset through
\* SessionService.clear_user_history: Session.query.filter_by(user_id).delete().
api_delete_history(db, user_id) ==
    [db  |-> [db EXCEPT !.sessions = {s \in db.sessions : s.user_id # user_id}],
     loc |-> Return(NewReq("delete_history", user_id, <<>>, "delete_history"),
                    "deleted", 200)]

\* api_reset_database (1946-1976): the user's sessions, or every session
\* when there is no current user.
api_reset_database(db, user_id) ==
    [db  |-> [db EXCEPT !.sessions =
                 IF user_id # None THEN {s \in db.sessions : s.user_id # user_id}
                 ELSE {}],
     loc |-> Return(NewReq("reset_database", user_id, <<>>, "reset_database"),
                    "reset", 200)]

DeleteHistory == \E u \in Users : Serve(api_delete_history(DB, u))

ResetDatabase == \E u \in Users \cup {None} : Serve(api_reset_database(DB, u))

\* The kiosk with the admin's history controls.
NextHistory ==
    \/ Scan
    \/ OverrideEnd
    \/ UpdateSettings(SettingsInputs)
    \/ DeleteHistory
    \/ ResetDatabase

SpecHistory == Init /\ [][NextHistory]_vars

\* C23: every session record of a step's first state is still a record of
\* its second state, for the same tenant, student and start; a session that
\* was open and is not open any more was ended by a scan or by the override.
C23_SessionsOnlyGrow ==
    [][\A s \in sessions :
          \E t \in sessions' :
              /\ t.id = s.id /\ t.user_id = s.user_id
              /\ t.student_id = s.student_id /\ t.start_ts = s.start_ts
              /\ (s.end_ts = NoTs /\ t.end_ts # NoTs) =>
                    t.ended_by \in {"kiosk_scan", "override"}]_vars

\* ------------------------------------------------------------------------
\* C24
\* ------------------------------------------------------------------------
\* A student id that reads as the tenant's number followed by another
\* student's id ("1_A" next to "A" in tenant 1); the roster upload takes any
\* non-empty id (925-945).
AliasCode == <<Str(1)>> \o <<"A">>

AliasStudents == {<<"A">>, AliasCode}

\* The roster of the tenant holds both ids.
InitAlias ==
    /\ settings = [u \in Users |-> DefaultSettings]
    /\ sessions = {}
    /\ queue = {}
    /\ student_name = {RosterRow(u, s, FALSE) : u \in Users, s \in AliasStudents}
    /\ now = 1
    /\ last = NoScan
    /\ reqs = [p \in Procs |-> Idle]
    /\ seen = NoPayload

AliasScan == \E u \in Users, code \in AliasStudents : Serve(api_scan(DB, u, code))

AliasRosterBan ==
    \E u \in Users, s \in AliasStudents, b \in BOOLEAN :
        Serve(api_roster_ban(DB, u, InlineHash(u, s), b))

NextAlias ==
    \/ AliasScan
    \/ AliasRosterBan
    \/ UpdateSettings(BanSettingsInputs)
    \/ Tick

SpecAlias == InitAlias /\ [][NextAlias]_vars

\* C24: a scan clears no ban flag, changes the flag of no student other than
\* the scanner, and sets the scanner's flag only when it ends an overdue
\* session with auto_ban_overdue enabled.
C24_ScanTouchesOnlyOwnFlag ==
    [][\A u \in Users, c \in AliasStudents \cup Codes :
          ScanServed(u, c) =>
              \A s \in AliasStudents \cup Students :
                  /\ BanFlag(u, s) => BanFlag(u, s)'
                  /\ s # c => (BanFlag(u, s)' <=> BanFlag(u, s))
                  /\ (s = c /\ ~BanFlag(u, s) /\ BanFlag(u, s)') =>
                        OverdueForAutoBan(u, c)]_vars

\* ------------------------------------------------------------------------
\* The overdue sweeps
\* ------------------------------------------------------------------------
\* api_ban_overdue (1138-1164): every open session of the user that is
\* overdue; the StudentName row is looked up by the hash WITH the user_id and
\* flagged when it is not flagged yet; one commit; the count of rows flagged.
api_ban_overdue(db, user_id) ==
    LET overdue_seconds == get_settings(db, user_id).overdue_minutes * 60
        open_sessions == {s \in db.sessions :
                             s.user_id = user_id /\ s.end_ts = NoTs}
        overdue == {s \in open_sessions :
                       duration_seconds(s, db.now) > overdue_seconds}
        flagged == {r \in db.student_name :
                       /\ r.user_id = user_id /\ ~r.banned
                       /\ \E s \in overdue :
                             r.name_hash = InlineHash(user_id, s.student_id)}
    IN  [db    |-> [db EXCEPT !.student_name =
                       (db.student_name \ flagged)
                          \cup {[r EXCEPT !.banned = TRUE] : r \in flagged}],
         loc   |-> Return(NewReq("ban_overdue", user_id, <<>>, "ban_overdue"),
                          "ok", 200),
         count |-> Cardinality(flagged)]

\* BanService.get_overdue_students (55-86): the overdue ones of the open
\* sessions, each with the ban flag BanService.is_student_banned reports.
get_overdue_students(db, user_id, open_sessions, overdue_minutes) ==
    LET idx == {i \in 1..Len(open_sessions) :
                   /\ user_id # None => open_sessions[i].user_id = user_id
                   /\ duration_seconds(open_sessions[i], db.now)
                         > overdue_minutes * 60}
        entry(s) == [student_id |-> s.student_id,
                     banned |-> is_student_banned(db, user_id, s.student_id)]
        RECURSIVE list(_)
        list(i) == IF i > Len(open_sessions) THEN <<>>
                   ELSE IF i \in idx THEN <<entry(open_sessions[i])>> \o list(i + 1)
                   ELSE list(i + 1)
    IN  list(1)

\* BanService.auto_ban_overdue_students (88-104): set_student_banned for
\* every entry listed as not banned; the count of the calls that succeeded.
RECURSIVE BanListed(_, _, _, _)
BanListed(table, user_id, overdue_list, i) ==
    IF i > Len(overdue_list) THEN [student_name |-> table, count |-> 0]
    ELSE LET student == overdue_list[i]
             tdb == [student_name |-> table]
             success == /\ ~student.banned
                        /\ NameRows(tdb, user_id,
                                    hash_student_id(student.student_id, None)) # {}
             rest == BanListed(IF success
                                 THEN set_student_banned(tdb, user_id,
                                                         student.student_id, TRUE)
                               ELSE table,
                               user_id, overdue_list, i + 1)
         IN  [student_name |-> rest.student_name,
              count |-> rest.count + (IF success THEN 1 ELSE 0)]

\* api_auto_ban_overdue (1811-1824) through auto_ban_overdue_students (453-462).
api_auto_ban_overdue(db, user_id) ==
    LET overdue_list == get_overdue_students(db, user_id,
                            get_open_sessions(db, user_id),
                            get_settings(db, user_id).overdue_minutes)
        result == BanListed(db.student_name, user_id, overdue_list, 1)
    IN  [db    |-> [db EXCEPT !.student_name = result.student_name],
         loc   |-> Return(NewReq("auto_ban_overdue", user_id, <<>>,
                                 "auto_ban_overdue"), "ok", 200),
         count |-> result.count]

BanOverdue == \E u \in Users : Serve(api_ban_overdue(DB, u))

AutoBanOverdue == \E u \in Users : Serve(api_auto_ban_overdue(DB, u))

\* The kiosk with the ban endpoints and both sweeps.
NextSweep ==
    \/ Scan
    \/ RosterBan
    \/ BanStudent
    \/ BanOverdue
    \/ AutoBanOverdue
    \/ UpdateSettings(BanSettingsInputs)
    \/ Tick

SpecSweep == Init /\ [][NextSweep]_vars

\* ------------------------------------------------------------------------
\* C25
\* ------------------------------------------------------------------------
\* C25: whenever a step writes the ban flag of a student of the tenant,
\* is_student_banned returns the written value after the step; and
\* set_student_banned succeeds for every student of the tenant's roster, with
\* is_student_banned returning what it wrote.
C25_BanRoundTrip ==
    [][\A u \in Users, s \in Students :
          /\ (BanFlag(u, s)' # BanFlag(u, s)) =>
                (is_student_banned(DB, u, s)' <=> BanFlag(u, s)')
          /\ \A b \in BOOLEAN :
                LET r == api_ban_student(DB, u, s, b)
                IN  r.loc.status = 200 /\ (is_student_banned(r.db, u, s) <=> b)]_vars

\* ------------------------------------------------------------------------
\* C26
\* ------------------------------------------------------------------------
\* The students of the tenant whose ban flag is set in a StudentName table.
Flagged(table, user_id) ==
    {s \in Students : RosterRow(user_id, s, TRUE) \in table}

\* The students of the tenant who hold an open session that has run longer
\* than the overdue threshold.
OverdueHolders(user_id) ==
    {s \in Students :
        \E o \in OpenOf(user_id) :
            /\ o.student_id = s
            /\ duration_seconds(o, now) > settings[user_id].overdue_minutes * 60}

\* A sweep result bans exactly the overdue holders who are not banned yet and
\* reports their number, and the sweep run again on its own result bans
\* nobody and reports 0.
SweepExactAndIdempotent(user_id, first, second) ==
    /\ Flagged(first.db.student_name, user_id)
          = Flagged(student_name, user_id) \cup OverdueHolders(user_id)
    /\ first.count
          = Cardinality(OverdueHolders(user_id) \ Flagged(student_name, user_id))
    /\ second.count = 0
    /\ second.db.student_name = first.db.student_name

\* C26: in every state either sweep, run by the admin of a tenant, bans
\* exactly the students holding an open session with elapsed > threshold who
\* are not banned yet, and a second run on the result changes no flag and
\* counts 0.
C26_SweepExactAndIdempotent ==
    \A u \in Users :
        /\ LET r == api_ban_overdue(DB, u)
           IN  SweepExactAndIdempotent(u, r, api_ban_overdue(r.db, u))
        /\ LET r == api_auto_ban_overdue(DB, u)
           IN  SweepExactAndIdempotent(u, r, api_auto_ban_overdue(r.db, u))

\* ------------------------------------------------------------------------
\* C27
\* ------------------------------------------------------------------------
\* The admin's changes: suspend the kiosk, lower the capacity, disable the
\* queue.
AdminInputs ==
    {[kiosk_suspended |-> TRUE], [capacity |-> JNum(1)], [enable_queue |-> FALSE]}

\* update_settings_api (or api_suspend_kiosk) commits while scans are in
\* flight: one commit, no lock shared with api_scan.
AdminCommit ==
    /\ \E u \in Users, data \in AdminInputs :
          settings' = update_settings_api(DB, u, data).db.settings
    /\ UNCHANGED <<sessions, queue, student_name, now, last, reqs, seen>>

\* The statements of a scan in flight in process p.
ScanRuns(p) ==
    \/ ScanReadSessions(p)
    \/ ScanAutoBan(p)
    \/ ScanCommitEnd(p)
    \/ ScanAutoPromote(p)
    \/ ScanCheckBan(p)
    \/ ScanCheckQueue(p)
    \/ ScanCheckCapacity(p)
    \/ ScanCommitStart(p)

NextAdmin ==
    \/ \E p \in Procs : ScanArrive(p)
    \/ \E p \in Procs : ScanRuns(p)
    \/ AdminCommit

\* The worker runs every handler it has entered to its return.
SpecAdmin ==
    InitConc /\ [][NextAdmin]_vars /\ \A p \in Procs : WF_vars(ScanRuns(p))

\* The scan of process p has taken its settings and is about to read the
\* tenant's sessions, and the suspension is committed (it is never lifted
\* here).
ReadsSessionsSuspended(p) ==
    /\ At(p, "scan", "sessions")
    /\ settings[reqs[p].user_id].kiosk_suspended

\* The scan of process p has committed a start.
StartCommitted(p) ==
    /\ reqs[p].op = "scan" /\ reqs[p].pc = "done" /\ reqs[p].action = "started"

\* C27: a scan that reads the tenant's sessions after a suspension was
\* committed never commits a session start.
C27_NoStartAfterSuspension ==
    \A p \in Procs : [](ReadsSessionsSuspended(p) => []~StartCommitted(p))

\* ------------------------------------------------------------------------
\* The status stream
\* ------------------------------------------------------------------------
\* The signature with the elapsed of the holder left in.
build_status_signature_KeepsElapsed(payload) ==
    [in_use |-> payload.in_use,
     name |-> payload.name,
     start |-> payload.start,
     elapsed |-> payload.elapsed,
     overdue |-> payload.overdue,
     overdue_minutes |-> payload.overdue_minutes,
     kiosk_suspended |-> payload.kiosk_suspended,
     auto_ban_overdue |-> payload.auto_ban_overdue,
     auto_promote_queue |-> payload.auto_promote_queue,
     capacity |-> payload.capacity,
     active_sessions |->
         [i \in 1..Len(payload.active_sessions) |->
             [id |-> payload.active_sessions[i].id,
              start |-> payload.active_sessions[i].start,
              name |-> payload.active_sessions[i].name,
              overdue |-> payload.active_sessions[i].overdue]],
     queue |-> payload.queue,
     queue_list |-> payload.queue_list]

\* _build_status_signature (338-364): the payload without its elapsed fields.
build_status_signature(payload) ==
    [in_use |-> payload.in_use,
     name |-> payload.name,
     start |-> payload.start,
     overdue |-> payload.overdue,
     overdue_minutes |-> payload.overdue_minutes,
     kiosk_suspended |-> payload.kiosk_suspended,
     auto_ban_overdue |-> payload.auto_ban_overdue,
     auto_promote_queue |-> payload.auto_promote_queue,
     capacity |-> payload.capacity,
     active_sessions |->
         [i \in 1..Len(payload.active_sessions) |->
             [id |-> payload.active_sessions[i].id,
              start |-> payload.active_sessions[i].start,
              name |-> payload.active_sessions[i].name,
              overdue |-> payload.active_sessions[i].overdue]],
     queue |-> payload.queue,
     queue_list |-> payload.queue_list]

\* Bound on the seconds a stream sleeps through.
MaxStreamTime == 20

\* Seconds from one poll of the stream to the next: time.sleep(0.5) and the
\* time the payload queries take.
Sleeps == {5}

\* The stream of one subscriber is kept in seen: payload is the payload of
\* its last data message (last_sig is the signature of it, None before the
\* first one), at is last_heartbeat, time the seconds it has slept, out what
\* its last poll yielded.
StreamConnected(user_id) ==
    [payload |-> [taken |-> FALSE], user_id |-> user_id, at |-> 0,
     time |-> 0, out |-> "retry"]

\* time.time() of the stream: the minutes of the clock and the seconds slept.
StreamClock == now * 60 + seen.time

\* sig != last_sig
SigChanged(payload) ==
    \/ ~seen.payload.taken
    \/ build_status_signature(payload) # build_status_signature(seen.payload)

\* The loop with the keep-alive due at 15 seconds already.
StreamPoll_PingsAtFifteen ==
    /\ \E d \in Sleeps :
          LET payload == build_status_payload(DB, seen.user_id)
              polled ==
                  IF SigChanged(payload)
                    THEN [seen EXCEPT !.payload = payload, !.at = StreamClock,
                                      !.out = "data"]
                  ELSE IF StreamClock - seen.at >= 15
                    THEN [seen EXCEPT !.at = StreamClock, !.out = "ping"]
                  ELSE [seen EXCEPT !.out = "none"]
          IN  /\ seen.time + d <= MaxStreamTime
              /\ seen' = [polled EXCEPT !.time = seen.time + d]
    /\ UNCHANGED <<settings, sessions, queue, student_name, now, last, reqs>>

\* The loop that sends data on its first turn only and takes every later
\* signature for the one it sent.
StreamPoll_SendsOnce ==
    /\ \E d \in Sleeps :
          LET payload == build_status_payload(DB, seen.user_id)
              polled ==
                  IF ~seen.payload.taken
                    THEN [seen EXCEPT !.payload = payload, !.at = StreamClock,
                                      !.out = "data"]
                  ELSE IF StreamClock - seen.at > 15
                    THEN [seen EXCEPT !.at = StreamClock, !.out = "ping"]
                  ELSE [seen EXCEPT !.out = "none"]
          IN  /\ seen.time + d <= MaxStreamTime
              /\ seen' = [polled EXCEPT !.time = seen.time + d]
    /\ UNCHANGED <<settings, sessions, queue, student_name, now, last, reqs>>

\* 1519-1540: one turn of the loop of _sse_status_stream.stream, and the
\* sleep after it.
StreamPoll ==
    /\ \E d \in Sleeps :
          LET payload == build_status_payload(DB, seen.user_id)
              polled ==
                  IF SigChanged(payload)
                    THEN [seen EXCEPT !.payload = payload, !.at = StreamClock,
                                      !.out = "data"]
                  ELSE IF StreamClock - seen.at > 15
                    THEN [seen EXCEPT !.at = StreamClock, !.out = "ping"]
                  ELSE [seen EXCEPT !.out = "none"]
          IN  /\ seen.time + d <= MaxStreamTime
              /\ seen' = [polled EXCEPT !.time = seen.time + d]
    /\ UNCHANGED <<settings, sessions, queue, student_name, now, last, reqs>>

\* Bodies that suspend and resume the kiosk.
StreamSettingsInputs == {[kiosk_suspended |-> TRUE], [kiosk_suspended |-> FALSE]}

\* The tenant has switched the queue and the auto-promotion on, and a
\* subscriber has connected to its stream.
InitStream ==
    /\ settings = [u \in Users |->
                      [DefaultSettings EXCEPT !.enable_queue = TRUE,
                                              !.auto_promote_queue = TRUE]]
    /\ sessions = {}
    /\ queue = {}
    /\ student_name = {RosterRow(u, s, FALSE) : u \in Users, s \in Students}
    /\ now = 1
    /\ last = NoScan
    /\ reqs = [p \in Procs |-> Idle]
    /\ seen \in {StreamConnected(u) : u \in Users}

NextStream ==
    \/ Scan
    \/ UpdateSettings(StreamSettingsInputs)
    \/ Tick
    \/ StreamPoll

SpecStream == InitStream /\ [][NextStream]_vars

\* ------------------------------------------------------------------------
\* C28
\* ------------------------------------------------------------------------
\* The payload with every elapsed value blanked.
WithoutElapsed(payload) ==
    [payload EXCEPT !.elapsed = 0,
                    !.active_sessions =
                        [i \in 1..Len(payload.active_sessions) |->
                            [payload.active_sessions[i] EXCEPT !.elapsed = 0]]]

\* The payloads differ in one of the fields the displays show.
DifferInShownField(p, q) ==
    \/ p.in_use # q.in_use \/ p.name # q.name \/ p.start # q.start
    \/ p.overdue # q.overdue
    \/ Len(p.active_sessions) # Len(q.active_sessions)
    \/ \E i \in 1..Len(p.active_sessions) :
          /\ i <= Len(q.active_sessions)
          /\ \/ p.active_sessions[i].id # q.active_sessions[i].id
             \/ p.active_sessions[i].overdue # q.active_sessions[i].overdue
    \/ p.queue # q.queue \/ p.queue_list # q.queue_list
    \/ p.capacity # q.capacity
    \/ p.kiosk_suspended # q.kiosk_suspended
    \/ p.auto_promote_queue # q.auto_promote_queue

\* C28: of the payload a subscriber was sent last and the payload of the
\* tenant's present state: when they differ in elapsed values only, their
\* signatures are equal; when they differ in in_use, the holder's name or
\* start, an overdue flag, the active sessions or their order, the queue or
\* its order, the capacity, or the suspended or auto-promote flag, their
\* signatures differ.
C28_SignatureIgnoresElapsedOnly ==
    seen.payload.taken =>
        LET p == seen.payload
            q == build_status_payload(DB, seen.user_id)
        IN  /\ WithoutElapsed(p) = WithoutElapsed(q) =>
                  build_status_signature(p) = build_status_signature(q)
            /\ DifferInShownField(p, q) =>
                  build_status_signature(p) # build_status_signature(q)

\* The pass is out and the stream's last payload differs from the present
\* one in elapsed alone.
C28_Witness ==
    /\ seen.payload.taken /\ seen.payload.in_use
    /\ seen.payload # build_status_payload(DB, seen.user_id)
    /\ WithoutElapsed(seen.payload)
          = WithoutElapsed(build_status_payload(DB, seen.user_id))

\* ------------------------------------------------------------------------
\* C29
\* ------------------------------------------------------------------------
\* C29: a poll of the stream emits a data message, carrying the present
\* payload, exactly when the present signature differs from the signature of
\* the last payload it emitted (or it has emitted none); with the signature
\* unchanged it emits a ping exactly when more than 15 seconds have passed
\* since its last emission, and nothing otherwise; last_heartbeat is the time
\* of the last emission.
C29_DataOnChangePingWhenIdle ==
    [][seen'.time # seen.time =>
          LET payload == build_status_payload(DB, seen.user_id)
              changed == \/ ~seen.payload.taken
                         \/ build_status_signature(payload)
                               # build_status_signature(seen.payload)
              idle    == StreamClock - seen.at
          IN  /\ seen'.out \in {"data", "ping", "none"}
              /\ seen'.out = "data" <=> changed
              /\ seen'.out = "data" => seen'.payload = payload
              /\ seen'.out = "ping" <=> (~changed /\ idle > 15)
              /\ seen'.out # "data" => seen'.payload = seen.payload
              /\ seen'.at = IF seen'.out = "none" THEN seen.at ELSE StreamClock]_vars

\* The stream pinged: its signature was unchanged for more than 15 seconds.
C29_Witness ==
    /\ seen.out = "ping" /\ seen.payload.taken
    /\ build_status_signature(build_status_payload(DB, seen.user_id))
          = build_status_signature(seen.payload)

\* ------------------------------------------------------------------------
\* C30
\* ------------------------------------------------------------------------
\* The signature of the tenant's present state, as the stream would take it.
PresentSignature == build_status_signature(build_status_payload(DB, seen.user_id))

\* The last data message of the subscriber carries the present signature.
UpToDate == seen.payload.taken /\ build_status_signature(seen.payload) = PresentSignature

\* C30 as claimed: every change of the tenant's signature gets a data message
\* of its own: when the signature changes for a connected subscriber, the
\* change before it has been sent already, so no message stands for two
\* changes and no change is lost under a later one.
C30_OneMessagePerChange ==
    [][(seen.payload.taken /\ PresentSignature' # PresentSignature) => UpToDate]_vars

\* C30 as amended: every poll leaves the subscriber with the signature of
\* the tenant's present state (a poll changes nothing of the tenant), by a
\* data message when the subscriber did not have it.
C30_PollDeliversPresentState ==
    [][seen'.time # seen.time =>
          /\ seen'.payload.taken
          /\ build_status_signature(seen'.payload) = PresentSignature
          /\ ~UpToDate => (seen'.out = "data" /\ seen'.payload # seen.payload)]_vars

\* A stream that had sent its first message polled again after a pass had
\* started and a student had been queued, and sent the present state.
C30_Witness ==
    /\ seen.time >= 10 /\ seen.out = "data" /\ UpToDate
    /\ seen.payload.in_use /\ seen.payload.queue # <<>>

\* ------------------------------------------------------------------------
\* C31
\* ------------------------------------------------------------------------
\* Connected subscribers; seen maps each to its stream.
Subscribers == {1, 2}

\* Tenants a token of a stream resolves to: tenant 1, and tenant 2, a user
\* who has signed up and whose Settings row does not exist yet.
StreamTenants == {1, 2}

\* A subscriber with no stream: the generator is closed and its locals gone.
Disconnected == [payload |-> [taken |-> FALSE], user_id |-> None, at |-> 0,
                 time |-> 0, out |-> "closed"]

\* get_settings 484-496: the Settings table after the call, with the default
\* row of the tenant added (and committed) where the tenant had none.
get_settings_table(db, user_id) ==
    IF user_id \in DOMAIN db.settings THEN db.settings
    ELSE [u \in DOMAIN db.settings \cup {user_id} |->
             IF u = user_id THEN DefaultSettings ELSE db.settings[u]]

\* What get_settings returns for a tenant without changing the table.
ConfigOf(table, user_id) ==
    IF user_id \in DOMAIN table THEN table[user_id] ELSE DefaultSettings

\* The turn with the heartbeat looked at before the signature.
stream_turn_HeartbeatFirst(db, st, clock) ==
    LET payload == build_status_payload(db, st.user_id)
        changed == \/ ~st.payload.taken
                   \/ build_status_signature(payload)
                         # build_status_signature(st.payload)
    IN  IF clock - st.at > 15
          THEN [st EXCEPT !.at = clock, !.out = "ping"]
        ELSE IF changed
          THEN [st EXCEPT !.payload = payload, !.at = clock, !.out = "data"]
        ELSE [st EXCEPT !.out = "none"]

\* 1519-1540: one turn of the loop of a stream st over the database db, with
\* time.time() at clock: the stream after it (its out is what it yielded).
stream_turn(db, st, clock) ==
    LET payload == build_status_payload(db, st.user_id)
        changed == \/ ~st.payload.taken
                   \/ build_status_signature(payload)
                         # build_status_signature(st.payload)
    IN  IF changed
          THEN [st EXCEPT !.payload = payload, !.at = clock, !.out = "data"]
        ELSE IF clock - st.at > 15
          THEN [st EXCEPT !.at = clock, !.out = "ping"]
        ELSE [st EXCEPT !.out = "none"]

\* The database a turn of a stream of user_id reads, after its get_settings.
StreamDB(db, user_id) ==
    [db EXCEPT !.settings = get_settings_table(db, user_id)]

\* api_stream: a subscriber connects with a token of one of the tenants.
SubscriberConnect(k) ==
    /\ seen[k] = Disconnected
    /\ \E u \in StreamTenants : seen' = [seen EXCEPT ![k] = StreamConnected(u)]
    /\ UNCHANGED <<settings, sessions, queue, student_name, now, last, reqs>>

\* A loop whose last signature and heartbeat are shared by the streams of a
\* tenant.
SubscriberPoll_SharedSignature(k) ==
    /\ seen[k] # Disconnected
    /\ \E d \in Sleeps :
          LET db   == StreamDB(DB, seen[k].user_id)
              turn == stream_turn(db, seen[k], now * 60 + seen[k].time)
          IN  /\ seen[k].time <= MaxStreamTime
              /\ settings' = db.settings
              /\ seen' = [j \in Subscribers |->
                            IF j = k THEN [turn EXCEPT !.time = seen[k].time + d]
                            ELSE IF seen[j].user_id = seen[k].user_id
                              THEN [seen[j] EXCEPT !.payload = turn.payload,
                                                   !.at = turn.at]
                            ELSE seen[j]]
    /\ UNCHANGED <<sessions, queue, student_name, now, last, reqs>>

\* 1519-1540: one turn of the loop of the stream of subscriber k, and the
\* sleep after it.
SubscriberPoll(k) ==
    /\ seen[k] # Disconnected
    /\ \E d \in Sleeps :
          LET db   == StreamDB(DB, seen[k].user_id)
              turn == stream_turn(db, seen[k], now * 60 + seen[k].time)
          IN  /\ seen[k].time <= MaxStreamTime
              /\ settings' = db.settings
              /\ seen' = [seen EXCEPT ![k] = [turn EXCEPT !.time = seen[k].time + d]]
    /\ UNCHANGED <<sessions, queue, student_name, now, last, reqs>>

\* The client goes away: the server closes the generator at its yield.
SubscriberDisconnect(k) ==
    /\ seen[k] # Disconnected
    /\ seen' = [seen EXCEPT ![k] = Disconnected]
    /\ UNCHANGED <<settings, sessions, queue, student_name, now, last, reqs>>

\* Tenant 1 has a pass out and a student waiting; nobody has connected yet.
InitSubscribers ==
    /\ settings = [u \in Users |->
                      [DefaultSettings EXCEPT !.enable_queue = TRUE]]
    /\ sessions = {SessionOfA}
    /\ queue = {QueueOfB}
    /\ student_name = {RosterRow(u, s, FALSE) : u \in Users, s \in Students}
    /\ now = 3
    /\ last = NoScan
    /\ reqs = [p \in Procs |-> Idle]
    /\ seen = [k \in Subscribers |-> Disconnected]

\* The admin of tenant 1 suspends and resumes the kiosk while the streams run.
NextSubscribers ==
    \/ UpdateSettings(StreamSettingsInputs)
    \/ \E k \in Subscribers : SubscriberConnect(k)
    \/ \E k \in Subscribers : SubscriberPoll(k)
    \/ \E k \in Subscribers : SubscriberDisconnect(k)

SpecSubscribers == InitSubscribers /\ [][NextSubscribers]_vars

\* What subscriber j receives on its next turn over the database db.
NextMessage(db, j, clock) ==
    LET turn == stream_turn([db EXCEPT !.settings = get_settings_table(db, j.user_id)],
                            j, clock)
    IN  <<turn.out, IF turn.out = "data" THEN turn.payload ELSE j.payload>>

\* A step of the stream of subscriber k leaves the streams of the others and
\* what they receive on their next turn as they were.
OthersUndisturbed(k) ==
    \A j \in Subscribers \ {k} :
        /\ seen'[j] = seen[j]
        /\ seen[j] # Disconnected =>
              NextMessage(DB', seen'[j], now * 60 + seen[j].time)
                = NextMessage(DB, seen[j], now * 60 + seen[j].time)

\* C31 as claimed: a step of one subscriber's stream (connecting, a turn of
\* its loop, disconnecting) leaves the stream of every other subscriber (its
\* last signature, its heartbeat time) and what it receives next as they
\* were, and writes nothing: every tenant's sessions, queue, ban flags and
\* settings are as they were.
C31_StreamsIndependentReadOnly ==
    [][\A k \in Subscribers :
          seen'[k] # seen[k] =>
              /\ OthersUndisturbed(k)
              /\ sessions' = sessions /\ queue' = queue
              /\ student_name' = student_name
              /\ settings' = settings]_vars

\* C31 as amended: the same, except that a turn of the loop for a tenant
\* with no Settings row stores the default row; the configuration
\* get_settings returns for every tenant is as it was.
C31_StreamsIndependentDefaultRowOnly ==
    [][\A k \in Subscribers :
          seen'[k] # seen[k] =>
              /\ OthersUndisturbed(k)
              /\ sessions' = sessions /\ queue' = queue
              /\ student_name' = student_name
              /\ \A u \in StreamTenants :
                    ConfigOf(settings', u) = ConfigOf(settings, u)
              /\ settings' # settings =>
                    /\ seen[k] # Disconnected /\ seen'[k] # Disconnected
                    /\ seen[k].user_id \notin DOMAIN settings
                    /\ DOMAIN settings' = DOMAIN settings \cup {seen[k].user_id}
                    /\ settings'[seen[k].user_id] = DefaultSettings
                    /\ \A u \in DOMAIN settings : settings'[u] = settings[u]]_vars

\* Two subscribers of tenant 2, whose Settings row their turns have stored,
\* each with its own heartbeat: one was sent data on its last turn, the other
\* a ping.
C31_Witness ==
    /\ seen[1] # Disconnected /\ seen[2] # Disconnected
    /\ seen[1].user_id = seen[2].user_id
    /\ seen[1].out = "data" /\ seen[2].out = "ping"
    /\ seen[1].at # seen[2].at
    /\ seen[1].user_id = 2 /\ 2 \in DOMAIN settings

\* ------------------------------------------------------------------------
\* C32
\* ------------------------------------------------------------------------
\* Values an admin request can carry for capacity and overdue_minutes:
\* 0, -1, 2; 0.5, 2.5, -0.5; "ab", "", " 2 ", "-3", "02", "2x"; true, false;
\* null.
ArbitraryValues ==
    {JNum(0), JNum(-1), JNum(2), JFloat(5), JFloat(25), JFloat(-5),
     JStr(<<"a", "b">>), JStr(<<>>), JStr(<<" ", "2", " ">>),
     JStr(<<"-", "3">>), JStr(<<"0", "2">>), JStr(<<"2", "x">>),
     JBool(TRUE), JBool(FALSE), JNull}

ArbitrarySettingsInputs ==
    {[capacity |-> v] : v \in ArbitraryValues}
        \cup {[overdue_minutes |-> v] : v \in ArbitraryValues}
        \cup {[capacity |-> v, overdue_minutes |-> w, kiosk_suspended |-> FALSE] :
                v \in {JNum(0), JNull}, w \in {JStr(<<"a", "b">>), JNum(-1)}}

\* The kiosk in use while the admin sends settings of every kind.
NextSettings ==
    \/ Scan
    \/ Tick
    \/ UpdateSettings(ArbitrarySettingsInputs)

SpecSettings == Init /\ [][NextSettings]_vars

\* The values int() raises on.
NonNumeric(v) == ~int(v).ok

\* C32: every tenant's stored capacity is at least 1 and its overdue
\* threshold at least 1 minute, and from the present state a settings update
\* with any value (zero, negative, fractional, a string, null) leaves them
\* so; a value that is not numeric leaves the field as it is, a numeric one
\* stores max(1, its integer part).
C32_CapacityAndThresholdAtLeastOne ==
    \A u \in Users :
        /\ settings[u].capacity >= 1
        /\ settings[u].overdue_minutes >= 1
        /\ \A data \in ArbitrarySettingsInputs :
              LET after == update_settings_api(DB, u, data).db.settings[u]
                  field(k) ==
                      IF k \notin DOMAIN data THEN after[k] = settings[u][k]
                      ELSE IF NonNumeric(data[k]) THEN after[k] = settings[u][k]
                      ELSE after[k] = (IF int(data[k]).val >= 1
                                         THEN int(data[k]).val ELSE 1)
              IN  /\ after.capacity >= 1 /\ after.overdue_minutes >= 1
                  /\ field("capacity") /\ field("overdue_minutes")

\* The admin has raised both values from the defaults, and the next request
\* may carry a zero, a negative or a non-numeric value.
C32_Witness ==
    \E u \in Users :
        /\ settings[u].capacity = 2 /\ settings[u].overdue_minutes = 2
        /\ \E data \in ArbitrarySettingsInputs :
              /\ "capacity" \in DOMAIN data /\ NonNumeric(data.capacity)
              /\ "overdue_minutes" \in DOMAIN data
              /\ int(data.overdue_minutes).ok /\ int(data.overdue_minutes).val < 1
              /\ update_settings_api(DB, u, data).db.settings[u].capacity = 2
              /\ update_settings_api(DB, u, data).db.settings[u].overdue_minutes = 1

\* ------------------------------------------------------------------------
\* C33
\* ------------------------------------------------------------------------
\* C33: run from the same state by the admin of a tenant, api_ban_overdue
\* and api_auto_ban_overdue leave the same StudentName table (the ban flag
\* of the same students set) and report the same count.
C33_SweepsEquivalent ==
    \A u \in Users :
        LET control == api_ban_overdue(DB, u)
            service == api_auto_ban_overdue(DB, u)
        IN  /\ Flagged(control.db.student_name, u)
                  = Flagged(service.db.student_name, u)
            /\ control.db.student_name = service.db.student_name
            /\ control.count = service.count

\* ------------------------------------------------------------------------
\* C34
\* ------------------------------------------------------------------------
\* C34: the admin's override end, from any state: with an open session it
\* answers ok and closes the tenant's open session of smallest start time,
\* writing its end time and ended_by = "override"; every other session, the
\* queue (nobody is promoted, also with auto-promote on and students
\* waiting), the ban flags and the settings are as before; with no open
\* session it answers 400 and changes nothing.
C34_OverrideEndsOldestOnly ==
    \A u \in Users :
        LET r    == api_override_end(DB, u)
            open == OpenOf(u)
        IN  /\ r.db.queue = queue
            /\ r.db.student_name = student_name
            /\ r.db.settings = settings
            /\ IF open = {}
                 THEN r.loc.status = 400 /\ r.db.sessions = sessions
               ELSE /\ r.loc.status = 200
                    /\ \E s \in open :
                          /\ \A o \in open : s.start_ts <= o.start_ts
                          /\ r.db.sessions =
                                (sessions \ {s})
                                   \cup {[s EXCEPT !.end_ts = now,
                                                   !.ended_by = "override"]}

\* An override has ended one of two passes while a student was waiting with
\* auto-promote on: the newer pass is still out and the student still waits.
C34_Witness ==
    \E u \in Users :
        /\ \E s \in sessions, o \in OpenOf(u) :
              /\ s.user_id = u /\ s.ended_by = "override"
              /\ s.start_ts < o.start_ts /\ o.start_ts < s.end_ts
        /\ QueueOf(u) # <<>>
        /\ settings[u].auto_promote_queue /\ settings[u].enable_queue

\* ------------------------------------------------------------------------
\* C35
\* ------------------------------------------------------------------------
\* C35: a step that serves a scan changes the number of the tenant's open
\* sessions and the length of its queue according to its response: started,
\* one more open session and the queue no longer (shorter by the scanner's
\* own row at most); ended or ended_banned, one open session fewer and the
\* queue as long; ended_auto_started, as many open sessions and the queue
\* shorter by one; queued, as many open sessions and the queue longer by
\* one; every other response, both as before.
C35_ScanChangesCountsByOne ==
    [][\A u \in Users :
          (last'.op = "scan" /\ last'.user_id = u) =>
              LET dOpen  == Cardinality(OpenOf(u)') - Cardinality(OpenOf(u))
                  dQueue == Cardinality(QueueRows(DB, u)') - Cardinality(QueueRows(DB, u))
                  a      == last'.action
              IN  /\ dOpen \in {-1, 0, 1} /\ dQueue \in {-1, 0, 1}
                  /\ a = "started" => (dOpen = 1 /\ dQueue \in {-1, 0})
                  /\ a \in {"ended", "ended_banned"} => (dOpen = -1 /\ dQueue = 0)
                  /\ a = "ended_auto_started" => (dOpen = 0 /\ dQueue = -1)
                  /\ a = "queued" => (dOpen = 0 /\ dQueue = 1)
                  /\ a \notin Ended \cup {"started", "queued"} =>
                        (dOpen = 0 /\ dQueue = 0)]_vars

\* ------------------------------------------------------------------------
\* C36
\* ------------------------------------------------------------------------
\* C36: a join, from any state, for a student who has a row in the tenant's
\* queue leaves the Queue table as it is; for anybody else it adds one row
\* for that student, behind every row of the tenant, the others in the order
\* they had; it changes no session, ban flag or setting; and the same join
\* sent again changes nothing more.
C36_JoinIdempotent ==
    \A u \in Users, code \in Codes :
        LET r     == api_queue_join(DB, u, code)
            again == api_queue_join(r.db, u, code)
            new   == r.db.queue \ queue
        IN  /\ r.db.sessions = sessions
            /\ r.db.student_name = student_name
            /\ r.db.settings = settings
            /\ r.loc.status = 200
            /\ IF Queued(u, code)
                 THEN /\ r.db.queue = queue
                      /\ QueueOrdered(r.db, u) = QueueOrdered(DB, u)
               ELSE /\ queue \subseteq r.db.queue
                    /\ Cardinality(new) = 1
                    /\ \A q \in new : q.user_id = u /\ q.student_id = code
                    /\ QueueOrdered(r.db, u)
                          = QueueOrdered(DB, u) \o <<CHOOSE q \in new : TRUE>>
            /\ again.db.queue = r.db.queue
            /\ again.db.sessions = sessions
            /\ again.loc.status = 200

\* Two students wait, the second having joined behind the first; a further
\* join of the first would find the row.
C36_Witness ==
    \E u \in Users :
        /\ Len(QueueOf(u)) = 2
        /\ QueueOf(u)[1] # QueueOf(u)[2]
        /\ api_queue_join(DB, u, QueueOf(u)[1]).db.queue = queue

\* ------------------------------------------------------------------------
\* C37
\* ------------------------------------------------------------------------
\* api_queue_delete (1489-1501): 400 without a student_id, else the DELETE
\* of api_queue_leave, committed.
api_queue_delete(db, user_id, student_id) ==
    IF student_id = <<>>
      THEN [db  |-> db,
            loc |-> Return(NewReq("queue_delete", user_id, student_id,
                                  "queue_delete"), "missing", 400)]
    ELSE [db  |-> [db EXCEPT !.queue =
                      {r \in db.queue :
                          ~(r.user_id = user_id /\ r.student_id = student_id)}],
          loc |-> Return(NewReq("queue_delete", user_id, student_id,
                                "queue_delete"), "deleted", 200)]

QueueDelete == \E u \in Users, code \in Students : Serve(api_queue_delete(DB, u, code))

\* A student of the same id waits in the queue of another tenant.
QueueOfOtherTenant == [student_id |-> <<"A">>, user_id |-> 2, joined_ts |-> 1]

\* Tenant 1 has its queue enabled; B may be waiting already; joins arrive
\* two at a time.
InitQueue ==
    /\ settings = [u \in Users |-> [DefaultSettings EXCEPT !.enable_queue = TRUE]]
    /\ sessions \in {{}, {SessionOfA}}
    /\ queue \in {{QueueOfOtherTenant}, {QueueOfB, QueueOfOtherTenant}}
    /\ student_name = {RosterRow(u, s, FALSE) : u \in Users, s \in Students}
    /\ now = 3
    /\ last = NoScan
    /\ reqs = [p \in Procs |-> Idle]
    /\ seen = NoPayload

NextQueue ==
    \/ \E p \in Procs : JoinArrive(p)
    \/ \E p \in Procs : JoinInsert(p)
    \/ QueueLeave
    \/ QueueDelete

SpecQueue == InitQueue /\ [][NextQueue]_vars

\* The result of a removal of code from the queue of the tenant: the rows of
\* code in the tenant are gone, every other row, the order of the tenant's
\* other waiters, the sessions, the ban flags and the settings are as they
\* were, and the removal run again changes nothing.
RemovesOnlyNamed(user_id, code, r, again) ==
    /\ \A q \in r.db.queue : ~(q.user_id = user_id /\ q.student_id = code)
    /\ \A q \in queue :
          (q.user_id # user_id \/ q.student_id # code) => q \in r.db.queue
    /\ r.db.queue \subseteq queue
    /\ QueueOrdered(r.db, user_id)
          = SelectSeq(QueueOrdered(DB, user_id), LAMBDA q : q.student_id # code)
    /\ r.db.sessions = sessions
    /\ r.db.student_name = student_name
    /\ r.db.settings = settings
    /\ ~Queued(user_id, code) => r.db.queue = queue
    /\ again.db.queue = r.db.queue
    /\ again.db.sessions = sessions

\* C37: from any state, queue leave and admin queue delete for a student
\* remove every row of that student in the tenant's queue and nothing else;
\* sent again, or sent for a student who is not queued, they change nothing.
C37_LeaveRemovesOnlyNamed ==
    \A u \in Users, code \in Codes :
        /\ LET r == api_queue_leave(DB, u, code)
           IN  RemovesOnlyNamed(u, code, r, api_queue_leave(r.db, u, code))
        /\ LET r == api_queue_delete(DB, u, code)
           IN  RemovesOnlyNamed(u, code, r, api_queue_delete(r.db, u, code))

\* A has two rows in the queue of tenant 1 (two joins in flight at once), B
\* waits as well, and A waits in the queue of tenant 2: a leave of A in
\* tenant 1 leaves B's row and the row of tenant 2.
C37_Witness ==
    /\ Cardinality({q \in queue : q.user_id = 1 /\ q.student_id = <<"A">>}) = 2
    /\ api_queue_leave(DB, 1, <<"A">>).db.queue = {QueueOfB, QueueOfOtherTenant}
    /\ api_queue_delete(DB, 1, <<"A">>).db.queue = {QueueOfB, QueueOfOtherTenant}

\* ------------------------------------------------------------------------
\* C38
\* ------------------------------------------------------------------------
\* Bodies that raise the capacity, lower the overdue threshold and enable
\* the queue.
StatusSettingsInputs ==
    {[capacity |-> JNum(2)], [overdue_minutes |-> JNum(1)],
     [enable_queue |-> TRUE]}

\* The kiosk in use, with students joining the queue and time passing.
NextStatus ==
    \/ Scan
    \/ QueueJoin
    \/ Tick
    \/ UpdateSettings(StatusSettingsInputs)

SpecStatus == Init /\ [][NextStatus]_vars

\* The name the displays show for a student id.
DisplayName(user_id, student_id, fallback) ==
    IF \E r \in student_name :
          r.user_id = user_id /\ r.encrypted_id = student_id
      THEN <<"name">> \o student_id
    ELSE fallback

\* Seconds the session has been out at the present time.
Elapsed(s) == (now - s.start_ts) * 60

\* C38: the payload built from a state agrees with it: in_use exactly when
\* the tenant has an open session; name, start, elapsed and overdue of the
\* payload are those of the open session of smallest start time;
\* active_sessions holds each open session of the tenant once, in the order
\* of their start times; queue and queue_list hold each waiter of the tenant
\* once, in the order they joined; an overdue flag is set exactly when the
\* elapsed seconds exceed the threshold.
C38_PayloadAgreesWithState ==
    \A u \in Users :
        LET p      == build_status_payload(DB, u)
            open   == OpenOf(u)
            rows   == QueueRows(DB, u)
            limit  == settings[u].overdue_minutes * 60
            act    == p.active_sessions
            of(id) == CHOOSE s \in open : s.id = id
            row(c) == CHOOSE q \in rows : q.student_id = c
        IN  /\ p.in_use <=> open # {}
            /\ open # {} =>
                  \E s \in open :
                      /\ \A o \in open : s.start_ts <= o.start_ts
                      /\ p.name = DisplayName(u, s.student_id, <<"Student">>)
                      /\ p.start = isoformat(s.start_ts)
                      /\ p.elapsed = Elapsed(s)
                      /\ p.overdue <=> Elapsed(s) > limit
            /\ Len(act) = Cardinality(open)
            /\ {act[i].id : i \in 1..Len(act)} = {s.id : s \in open}
            /\ \A i \in 1..Len(act) :
                  /\ act[i].start = isoformat(of(act[i].id).start_ts)
                  /\ act[i].name
                        = DisplayName(u, of(act[i].id).student_id, <<"Student">>)
                  /\ act[i].elapsed = Elapsed(of(act[i].id))
                  /\ act[i].overdue <=> Elapsed(of(act[i].id)) > limit
                  /\ \A j \in 1..Len(act) :
                        i < j => of(act[i].id).start_ts <= of(act[j].id).start_ts
            /\ Len(p.queue_list) = Cardinality(rows)
            /\ Len(p.queue) = Cardinality(rows)
            /\ {p.queue_list[i].student_id : i \in 1..Len(p.queue_list)}
                  = {q.student_id : q \in rows}
            /\ \A i \in 1..Len(p.queue_list) :
                  /\ p.queue[i]
                        = DisplayName(u, p.queue_list[i].student_id, <<"Unknown">>)
                  /\ p.queue_list[i].name = p.queue[i]
                  /\ \A j \in 1..Len(p.queue_list) :
                        i < j => row(p.queue_list[i].student_id).joined_ts
                                    <= row(p.queue_list[j].student_id).joined_ts
            /\ p.capacity = settings[u].capacity
            /\ p.kiosk_suspended = settings[u].kiosk_suspended

\* Two passes are out, both overdue, and a student waits.
C38_Witness ==
    \E u \in Users :
        LET p == build_status_payload(DB, u)
        IN  /\ Len(p.active_sessions) = 2
            /\ p.active_sessions[1].overdue /\ p.active_sessions[2].overdue
            /\ p.active_sessions[1].elapsed > p.active_sessions[2].elapsed
            /\ p.in_use /\ p.overdue
            /\ Len(p.queue_list) >= 1

\* ------------------------------------------------------------------------
\* C39
\* ------------------------------------------------------------------------
\* C39: a stream that connects has emitted the retry hint and nothing else,
\* its last signature unset; its first turn emits a data message carrying
\* the payload of the tenant's present state; a ping is emitted only by a
\* stream that has emitted a data message before.
C39_RetryThenDataBeforeAnyPing ==
    [][\A k \in Subscribers :
          /\ (seen[k] = Disconnected /\ seen'[k] # Disconnected) =>
                (seen'[k].out = "retry" /\ ~seen'[k].payload.taken)
          /\ (seen'[k] # Disconnected /\ ~seen'[k].payload.taken) =>
                seen'[k].out = "retry"
          /\ (seen[k].out = "retry" /\ seen'[k] # seen[k]
                /\ seen'[k] # Disconnected) =>
                /\ seen'[k].out = "data"
                /\ seen'[k].payload
                      = build_status_payload(StreamDB(DB, seen[k].user_id),
                                             seen[k].user_id)
                /\ seen'[k].payload.taken
          /\ seen'[k].out = "ping" => seen[k].payload.taken]_vars

\* One stream has made its first turn only and was sent the pass that is
\* out; the other has pinged since its first data message.
C39_Witness ==
    /\ seen[1].out = "data" /\ seen[1].time = 5 /\ seen[1].user_id = 1
    /\ seen[1].payload.in_use /\ seen[1].payload.queue # <<>>
    /\ seen[2].out = "ping" /\ seen[2].payload.taken

=============================================================================
